---- MODULE Spec2Model ----
(***************************************************************************)
(* PDF -> fixed-layout EPUB conversion: the extractor (pdf_extractor.py),  *)
(* the two generators (epub_generator_v2.py, epub_generator.py), the       *)
(* validator (validator.py) and the pipeline (converter.py).               *)
(*                                                                         *)
(* Conventions of the model                                                *)
(*  - A string the program inspects (a file name, the marker file's        *)
(*    content, a font name) is a sequence of tokens; the tokens are cut so *)
(*    that every substring the code looks for ('page', 'reference',        *)
(*    '.xhtml', 'OEBPS/images/', 'Bold', ...) is a whole token or a whole  *)
(*    run of tokens, and no other token contains it.                       *)
(*  - A coordinate is an integer number of hundredths of a point.          *)
(*  - The source file and the output file are values describing what a     *)
(*    reader of the file finds there.                                      *)
(***************************************************************************)
EXTENDS Integers, Sequences, FiniteSets, TLC

\* ---------------------------------------------------------------- state
VARIABLES
  pdf,        \* what is at the source path
  epub,       \* what is at the output path
  workimgs,   \* the file names in <working_dir>/extracted/images
  extracted,  \* what the caller's last extract_all() returned
  scratch,    \* the generators' scratch directories, /tmp/epub_temp(_v2)
  generated,  \* history: the generator run that wrote the output file
  lastgen,    \* history: how the last generate() call ended
  conv,       \* the outcome of the last convert(), with the archive it wrote
  validator,  \* the caller's ContentValidator instance
  reports,    \* the reports its validate() calls returned, oldest first
  observed,   \* history: the files each of those calls found
  env,        \* the changes the environment has made to the output file
  call,       \* the validate() call in progress, when its steps are told apart
  textlog,    \* history: what each _extract_text call on the page returned
  gens        \* the EPUBGeneratorV2 instances that share /tmp/epub_temp_v2

\* ------------------------------------------------------------------ bounds
\* pages of a source document
MaxPages == 3
\* changes the environment makes to the output file in one behaviour
MaxEnv == 1
\* pages of a source document the validator is run against
MaxValPages == 1
\* validate() calls on one ContentValidator instance
MaxValidate == 2
\* text characters the environment leaves in a rewritten page document
MaxDocChars == 4

\* ------------------------------------------------------- strings as tokens
DigitChars == <<"0", "1", "2", "3", "4", "5", "6", "7", "8", "9">>

RECURSIVE Digits(_)
\* str(n) for n >= 0
Digits(n) ==
  IF n < 10 THEN <<DigitChars[n + 1]>>
  ELSE Digits(n \div 10) \o <<DigitChars[(n % 10) + 1]>>

RECURSIVE ZeroPad(_, _)
ZeroPad(s, w) == IF Len(s) >= w THEN s ELSE ZeroPad(<<"0">> \o s, w)

\* f"{n:0wd}": at least w digits, zero-padded on the left
Fmt0d(n, w) == ZeroPad(Digits(n), w)

Contains(s, tok) == \E i \in 1..Len(s) : s[i] = tok

EndsWith(s, tok) == Len(s) > 0 /\ s[Len(s)] = tok

StartsWith(s, pre) == Len(s) >= Len(pre) /\ SubSeq(s, 1, Len(pre)) = pre

Whitespace == {" ", "\n", "\t"}

RECURSIVE LStrip(_)
LStrip(s) == IF s # <<>> /\ Head(s) \in Whitespace THEN LStrip(Tail(s)) ELSE s

RECURSIVE RStrip(_)
RStrip(s) ==
  IF s # <<>> /\ s[Len(s)] \in Whitespace THEN RStrip(SubSeq(s, 1, Len(s) - 1)) ELSE s

\* str.strip()
Strip(s) == RStrip(LStrip(s))

\* F applied to the value of x, with x evaluated once
Let(x, F(_)) == CHOOSE r \in {F(v) : v \in {x}} : TRUE

RECURSIVE SumSeq(_)
SumSeq(s) == IF s = <<>> THEN 0 ELSE Head(s) + SumSeq(Tail(s))

\* the None of an optional file name
None == <<>>

\* ------------------------------------------------------ the source document
\* One glyph of page.chars.
Glyph(t, x0, x1, y0, y1, font) ==
  [text |-> t, x0 |-> x0, x1 |-> x1, y0 |-> y0, y1 |-> y1, font |-> font, size |-> 1200]

\* One entry of page.images; decodable says whether get_rawdata / Image.open /
\* the conversion / save all succeed for it.
Img(x0, x1, y0, y1, decodable) ==
  [x0 |-> x0, x1 |-> x1, y0 |-> y0, y1 |-> y1, decodable |-> decodable]

Helvetica == <<"Helvetica">>
HelveticaBold == <<"Helvetica", "-", "Bold">>

\* A 200 x 300 pt page with the one text run "Hello" at box (10,10,60,30), its
\* glyphs not in left-to-right order in the content stream; no image.
PageT ==
  [width |-> 20000, height |-> 30000,
   chars |-> << Glyph("H", 1000, 2000, 1000, 3000, Helvetica),
                Glyph("l", 3000, 4000, 1000, 3000, Helvetica),
                Glyph("e", 2000, 3000, 1000, 3000, Helvetica),
                Glyph("l", 4000, 5000, 1000, 3000, Helvetica),
                Glyph("o", 5000, 6000, 1000, 3000, Helvetica) >>,
   images |-> << >>,
   renderable |-> TRUE,
   textlen |-> 5]

\* A page with the bold line "Hi" and two images: the first decodes, the
\* second does not.
PageI ==
  [width |-> 20000, height |-> 30000,
   chars |-> << Glyph("H", 1000, 2000, 20000, 22000, HelveticaBold),
                Glyph("i", 2000, 2500, 20004, 21500, HelveticaBold) >>,
   images |-> << Img(1000, 9000, 5000, 15000, TRUE),
                 Img(11000, 19000, 5000, 15000, FALSE) >>,
   renderable |-> TRUE,
   textlen |-> 2]

\* A page with a blank line, the line "ok", one image that fails to decode
\* and a reference snapshot that fails to render.
PageF ==
  [width |-> 20000, height |-> 30000,
   chars |-> << Glyph(" ", 1000, 2000, 25000, 26000, Helvetica),
                Glyph("o", 1000, 2000, 4000, 5000, Helvetica),
                Glyph("k", 2000, 3000, 4000, 5200, Helvetica) >>,
   images |-> << Img(2000, 8000, 6000, 12000, FALSE) >>,
   renderable |-> FALSE,
   textlen |-> 2]

PageKinds == {PageT, PageI, PageF}

RECURSIVE SeqsUpTo(_, _)
\* the sequences over S of length 0..n
SeqsUpTo(S, n) ==
  IF n = 0 THEN {<<>>}
  ELSE LET shorter == SeqsUpTo(S, n - 1)
       IN shorter \cup {Append(s, e) : s \in {t \in shorter : Len(t) = n - 1}, e \in S}

\* What is at the source path: nothing, a file pdfplumber cannot open, or a
\* document with its pages.
PdfMissing == [kind |-> "missing"]
PdfGarbage == [kind |-> "garbage"]
PdfDoc(pages) == [kind |-> "pdf", pages |-> pages]

SourceFiles(n) == {PdfMissing, PdfGarbage} \cup {PdfDoc(p) : p \in SeqsUpTo(PageKinds, n)}

PdfExists(f) == f.kind # "missing"
PdfOpens(f) == f.kind = "pdf"

\* ------------------------------------------------------------ the extractor
\* round(v, 1): to the nearest tenth of a point, a tie to the even tenth.
Round1(v) ==
  LET q == v \div 10
      r == v % 10
  IN  IF r < 5 THEN 10 * q
      ELSE IF r > 5 THEN 10 * (q + 1)
      ELSE IF q % 2 = 0 THEN 10 * q ELSE 10 * (q + 1)

RECURSIVE InsertByX0(_, _)
InsertByX0(s, c) ==
  IF s = <<>> THEN <<c>>
  ELSE IF Head(s).x0 <= c.x0 THEN <<Head(s)>> \o InsertByX0(Tail(s), c)
  ELSE <<c>> \o s

\* the line's glyphs left in the order of page.chars
StreamOrder(s) == s

RECURSIVE SortedByX0(_)
\* sorted(line, key=lambda c: c['x0']): stable
SortedByX0(s) ==
  IF s = <<>> THEN <<>>
  ELSE InsertByX0(SortedByX0(SubSeq(s, 1, Len(s) - 1)), s[Len(s)])

RECURSIVE SortedKeys(_)
\* sorted(lines.keys())
SortedKeys(S) ==
  IF S = {} THEN <<>>
  ELSE LET m == CHOOSE k \in S : \A j \in S : k <= j
       IN <<m>> \o SortedKeys(S \ {m})

\* lines[y]: the glyphs whose rounded y0 is y, in page.chars order
LineBucket(chars, y) == SelectSeq(chars, LAMBDA c : Round1(c.y0) = y)

LineKeys(chars) == {Round1(chars[i].y0) : i \in 1..Len(chars)}

\* ''.join(c['text'] for c in line_chars)
JoinText(line_chars) == [i \in 1..Len(line_chars) |-> line_chars[i].text]

\* The TextElement of one sorted, non-blank line.
TextElementOf(line_chars, page_height, page_num) ==
  LET x0 == line_chars[1].x0
      y0 == line_chars[1].y0
      x1 == line_chars[Len(line_chars)].x1
      y1 == line_chars[Len(line_chars)].y1
      y0_html == page_height - y1
      y1_html == page_height - y0
      font_name == line_chars[1].font
  IN  [text |-> JoinText(line_chars),
       x0 |-> x0, y0 |-> y0_html, x1 |-> x1, y1 |-> y1_html,
       font_name |-> font_name,
       font_size |-> line_chars[1].size,
       is_bold |-> Contains(font_name, "Bold"),
       is_italic |-> Contains(font_name, "Italic") \/ Contains(font_name, "Oblique"),
       line_height |-> y1_html - y0_html,
       page_num |-> page_num]

RECURSIVE TextOfKeys(_, _, _, _)
TextOfKeys(keys, chars, page_height, page_num) ==
  IF keys = <<>> THEN <<>>
  ELSE LET line_chars == SortedByX0(LineBucket(chars, Head(keys)))
           rest == TextOfKeys(Tail(keys), chars, page_height, page_num)
       IN  IF Strip(JoinText(line_chars)) # <<>>
           THEN <<TextElementOf(line_chars, page_height, page_num)>> \o rest
           ELSE rest

\* _extract_text walking the lines in an order that is not fixed by the
\* page: ascending keys on the first call, descending keys afterwards
ExtractTextByCall(page, page_num) ==
  LET keys == SortedKeys(LineKeys(page.chars))
  IN  TextOfKeys(IF textlog = <<>> THEN keys
                 ELSE [i \in 1..Len(keys) |-> keys[Len(keys) + 1 - i]],
                 page.chars, page.height, page_num)

\* PDFExtractor._extract_text
ExtractText(page, page_num) ==
  TextOfKeys(SortedKeys(LineKeys(page.chars)), page.chars, page.height, page_num)

\* the image's file name without the page number
ImgFilenameByIndex(page_num, img_index) ==
  <<"page", "_img_">> \o Fmt0d(img_index, 2) \o <<".png">>

\* f"page_{page_num:03d}_img_{img_index:02d}.png"
ImgFilename(page_num, img_index) ==
  <<"page", "_">> \o Fmt0d(page_num, 3) \o <<"_img_">> \o Fmt0d(img_index, 2) \o <<".png">>

\* f"page_{page_num:03d}_reference.png"
RefFilename(page_num) ==
  <<"page", "_">> \o Fmt0d(page_num, 3) \o <<"_", "reference", ".png">>

\* The ImageElement with each vertical bound subtracted from the page height
\* in place: the top and the bottom change places.
ImageElementOfInPlace(img, page_height, page_num, img_index) ==
  LET y0_html == page_height - img.y0
      y1_html == page_height - img.y1
  IN  [image_path |-> ImgFilename(page_num, img_index),
       x0 |-> img.x0, y0 |-> y0_html, x1 |-> img.x1, y1 |-> y1_html,
       width |-> img.x1 - img.x0,
       height |-> y1_html - y0_html,
       page_num |-> page_num]

\* The ImageElement of the image at index img_index (0-based) of a page.
ImageElementOf(img, page_height, page_num, img_index) ==
  LET y0_html == page_height - img.y1
      y1_html == page_height - img.y0
  IN  [image_path |-> ImgFilename(page_num, img_index),
       x0 |-> img.x0, y0 |-> y0_html, x1 |-> img.x1, y1 |-> y1_html,
       width |-> img.x1 - img.x0,
       height |-> y1_html - y0_html,
       page_num |-> page_num]

RECURSIVE ImagesFrom(_, _, _)
ImagesFrom(page, page_num, i) ==
  IF i > Len(page.images) THEN <<>>
  ELSE LET rest == ImagesFrom(page, page_num, i + 1)
       IN  IF page.images[i].decodable
           THEN <<ImageElementOf(page.images[i], page.height, page_num, i - 1)>> \o rest
           ELSE rest

RECURSIVE ImagesUntilFailure(_, _, _)
ImagesUntilFailure(page, page_num, i) ==
  IF i > Len(page.images) \/ ~page.images[i].decodable THEN <<>>
  ELSE <<ImageElementOf(page.images[i], page.height, page_num, i - 1)>>
       \o ImagesUntilFailure(page, page_num, i + 1)

\* _extract_images with the try around the loop: the first failing image
\* ends the page's images
ExtractImagesAborting(page, page_num) == ImagesUntilFailure(page, page_num, 1)

\* PDFExtractor._extract_images: a failing image is skipped
ExtractImages(page, page_num) == ImagesFrom(page, page_num, 1)

\* PDFExtractor._save_page_image: the file name, or None when rendering fails
SavePageImage(page, page_num) ==
  IF page.renderable THEN RefFilename(page_num) ELSE None

\* PDFExtractor._extract_page
ExtractPage(page, page_num) ==
  [page_num |-> page_num,
   page_width |-> page.width,
   page_height |-> page.height,
   text_elements |-> ExtractText(page, page_num),
   image_elements |-> ExtractImages(page, page_num),
   background_image_path |-> SavePageImage(page, page_num)]

\* The files one extraction writes into <output_dir>/images.
ExtractedFiles(pages_content) ==
  UNION {
    {pages_content[i].image_elements[j].image_path :
        j \in 1..Len(pages_content[i].image_elements)}
    \cup (IF pages_content[i].background_image_path = None THEN {}
          ELSE {pages_content[i].background_image_path})
    : i \in 1..Len(pages_content)}

NoMetadata == [total_pages |-> 0, title |-> "Unknown", author |-> "Unknown"]

\* extract_all() with enumerate(pdf.pages) counting from 0
ExtractAllFromZero(f) ==
  IF ~PdfOpens(f)
  THEN [raised |-> TRUE, pages |-> <<>>, metadata |-> NoMetadata, files |-> {}]
  ELSE LET pages_content == [i \in 1..Len(f.pages) |-> ExtractPage(f.pages[i], i - 1)]
       IN  [raised |-> FALSE,
            pages |-> pages_content,
            metadata |-> [total_pages |-> Len(f.pages),
                          title |-> "Unknown", author |-> "Unknown"],
            files |-> ExtractedFiles(pages_content)]

\* PDFExtractor(...).extract_all(): raises when the source cannot be opened,
\* else returns one PageContent per page, numbered from 1, and the metadata.
ExtractAll(f) ==
  IF ~PdfOpens(f)
  THEN [raised |-> TRUE, pages |-> <<>>, metadata |-> NoMetadata, files |-> {}]
  ELSE LET pages_content == [i \in 1..Len(f.pages) |-> ExtractPage(f.pages[i], i)]
       IN  [raised |-> FALSE,
            pages |-> pages_content,
            metadata |-> [total_pages |-> Len(f.pages),
                          title |-> "Unknown", author |-> "Unknown"],
            files |-> ExtractedFiles(pages_content)]


\* ------------------------------------------------ files of the package tree
\* zipfile's compression methods
ZIP_STORED == 0
ZIP_DEFLATED == 8

\* the required content of the marker file, b"application/epub+zip"
MIMETYPE == <<"application/epub", "+zip">>

MimetypeName == <<"mimetype">>
ContainerName == <<"META-INF/", "container", ".xml">>
OpfName == <<"OEBPS/", "content", ".opf">>
NcxName == <<"OEBPS/", "toc", ".ncx">>
NavName == <<"OEBPS/", "nav", ".xhtml">>
CssName == <<"OEBPS/", "styles", ".css">>

\* f"page{page_num:03d}.xhtml"
PageHref(page_num) == <<"page">> \o Fmt0d(page_num, 3) \o <<".xhtml">>
\* f"page{page_num}"
PageId(page_num) == <<"page">> \o Digits(page_num)
PageName(page_num) == <<"OEBPS/">> \o PageHref(page_num)
ImageName(img_file) == <<"OEBPS/", "images/">> \o img_file

DirTokens == {"META-INF/", "OEBPS/", "images/"}

RECURSIVE Basename(_)
\* the last component of a relative path
Basename(name) ==
  IF name # <<>> /\ Head(name) \in DirTokens THEN Basename(Tail(name)) ELSE name

\* the text nodes the generators write, character by character
PageTitle(page_num) == <<"P", "a", "g", "e", " ">> \o Digits(page_num)
NavigationText == <<"N", "a", "v", "i", "g", "a", "t", "i", "o", "n">>
TocText ==
  <<"T", "a", "b", "l", "e", " ", "o", "f", " ", "C", "o", "n", "t", "e", "n", "t", "s">>

\* File contents. A markup document carries ok (whether it parses as XML),
\* texts (its text nodes as written by the code, in document order; the
\* serializer's indentation is not counted) and what the code put in it.
BytesData(b) == [type |-> "bytes", bytes |-> b]
PngData == [type |-> "png"]
CssData == [type |-> "css"]

\* open(path, 'w'/'wb').write(...): create the file or replace its content
WriteFile(tree, name, data) ==
  IF \E i \in 1..Len(tree) : tree[i].name = name
  THEN [i \in 1..Len(tree) |->
          IF tree[i].name = name THEN [name |-> name, data |-> data] ELSE tree[i]]
  ELSE Append(tree, [name |-> name, data |-> data])

HasFile(tree, name) == \E i \in 1..Len(tree) : tree[i].name = name

FileData(tree, name) == (CHOOSE i \in 1..Len(tree) : tree[i].name = name)

\* ------------------------------------------------------- EPUBGeneratorV2
\* _setup_structure without the rmtree: what is in the scratch directory
\* stays, the directories are made with exist_ok and the marker is rewritten
SetupStructureKeeping ==
  IF scratch.v2.exists /\ scratch.v2.files # <<>> THEN scratch.v2.files
  ELSE <<[name |-> MimetypeName, data |-> BytesData(MIMETYPE)]>>

\* _setup_structure: the scratch directory is removed and re-created with
\* the marker file alone
SetupStructure == <<[name |-> MimetypeName, data |-> BytesData(MIMETYPE)]>>

\* The image file names an images directory can hold, in a fixed listing
\* order: extracted images and reference snapshots of pages 1..MaxPages + 1.
MaxImagesPerPage == 2

\* The files of the walk an interrupted packaging can have written.
MaxWritten == 2

ListingNames ==
  LET perPage(p) ==
        [k \in 1..(MaxImagesPerPage + 1) |->
           IF k <= MaxImagesPerPage THEN ImgFilename(p, k - 1) ELSE RefFilename(p)]
      flat(n) == [k \in 1..(n * (MaxImagesPerPage + 1)) |->
                    perPage(((k - 1) \div (MaxImagesPerPage + 1)) + 1)
                           [((k - 1) % (MaxImagesPerPage + 1)) + 1]]
  IN  flat(MaxPages + 1)

\* source_dir.glob("*.png")
GlobPng(files) == SelectSeq(ListingNames, LAMBDA n : n \in files /\ EndsWith(n, ".png"))

RECURSIVE CopyEach(_, _)
CopyEach(tree, names) ==
  IF names = <<>> THEN tree
  ELSE CopyEach(IF ~Contains(Head(names), "reference")
                THEN WriteFile(tree, ImageName(Head(names)), PngData)
                ELSE tree,
                Tail(names))

\* _copy_images: every *.png of the source directory whose name has no
\* "reference" in it
CopyImages(tree, files) == CopyEach(tree, GlobPng(files))

\* _create_container_xml
CreateContainerXml(tree) ==
  WriteFile(tree, ContainerName,
            [type |-> "xml", ok |-> TRUE, root |-> "container", texts |-> <<>>,
             rootfile |-> OpfName])

ManifestItem(id, href, media_type, properties) ==
  [id |-> id, href |-> href, media_type |-> media_type, properties |-> properties]

\* the set image_files of _create_package_opf
ImageFiles(pages_content) ==
  UNION {{pages_content[i].image_elements[j].image_path :
            j \in 1..Len(pages_content[i].image_elements)} : i \in 1..Len(pages_content)}

\* img_file.replace("/", "_").replace(".", "_")
ReplaceDots(name) ==
  [i \in 1..Len(name) |-> IF name[i] = ".png" THEN "_png" ELSE name[i]]

\* _create_package_opf with the spine numbered from the list index (from 0)
PackageOpfFromZero(pages_content, metadata) ==
  [type |-> "xml", ok |-> TRUE, root |-> "package", texts |-> <<>>,
   viewport |-> <<pages_content[1].page_width, pages_content[1].page_height>>,
   manifest |->
      << ManifestItem(<<"stylesheet">>, <<"styles", ".css">>, "text/css", ""),
         ManifestItem(<<"nav">>, <<"nav", ".xhtml">>, "application/xhtml+xml", "nav") >>
      \o [i \in 1..Len(pages_content) |->
            ManifestItem(PageId(pages_content[i].page_num),
                         PageHref(pages_content[i].page_num),
                         "application/xhtml+xml", "")],
   image_items |->
      {ManifestItem(<<"image_">> \o ReplaceDots(f), <<"images/">> \o f, "image/png", "") :
         f \in ImageFiles(pages_content)},
   spine |-> [i \in 1..Len(pages_content) |->
                [idref |-> PageId(i - 1), properties |-> ""]]]

\* _create_package_opf; None when pages_content[0] raises IndexError.
\* The manifest lists the stylesheet, the navigation document and the pages
\* in order; the image items follow in the iteration order of a set, which
\* the model leaves open by keeping them as a set.
PackageOpf(pages_content, metadata) ==
  [type |-> "xml", ok |-> TRUE, root |-> "package", texts |-> <<>>,
   viewport |-> <<pages_content[1].page_width, pages_content[1].page_height>>,
   manifest |->
      << ManifestItem(<<"stylesheet">>, <<"styles", ".css">>, "text/css", ""),
         ManifestItem(<<"nav">>, <<"nav", ".xhtml">>, "application/xhtml+xml", "nav") >>
      \o [i \in 1..Len(pages_content) |->
            ManifestItem(PageId(pages_content[i].page_num),
                         PageHref(pages_content[i].page_num),
                         "application/xhtml+xml", "")],
   image_items |->
      {ManifestItem(<<"image_">> \o ReplaceDots(f), <<"images/">> \o f, "image/png", "") :
         f \in ImageFiles(pages_content)},
   spine |-> [i \in 1..Len(pages_content) |->
                [idref |-> PageId(pages_content[i].page_num), properties |-> ""]]]

CreatePackageOpf(tree, pages_content, metadata) ==
  WriteFile(tree, OpfName, PackageOpf(pages_content, metadata))

\* _create_toc_ncx
CreateTocNcx(tree, pages_content) ==
  WriteFile(tree, NcxName,
    [type |-> "xml", ok |-> TRUE, root |-> "ncx",
     texts |-> <<TocText>> \o [i \in 1..Len(pages_content) |->
                                 PageTitle(pages_content[i].page_num)],
     total_pages |-> Len(pages_content),
     nav_points |-> [i \in 1..Len(pages_content) |->
                       [id |-> PageId(pages_content[i].page_num),
                        play_order |-> pages_content[i].page_num,
                        src |-> PageHref(pages_content[i].page_num)]]])

\* _create_nav_xhtml
CreateNavXhtml(tree, pages_content) ==
  WriteFile(tree, NavName,
    [type |-> "xml", ok |-> TRUE, root |-> "html",
     texts |-> <<NavigationText, TocText>>
               \o [i \in 1..Len(pages_content) |-> PageTitle(pages_content[i].page_num)],
     links |-> [i \in 1..Len(pages_content) |-> PageHref(pages_content[i].page_num)]])

\* f"{v:.1f}"
Fmt1f(v) == Round1(v)

\* _generate_page_xhtml with its two loops in the other order: the text
\* containers first, then the image containers
GeneratePageXhtmlTextFirst(page) ==
  LET imgs == [i \in 1..Len(page.image_elements) |->
                 [class |-> "Basic-Graphics-Frame",
                  left |-> Round1(page.image_elements[i].x0),
                  top |-> Round1(page.image_elements[i].y0),
                  src |-> <<"images/">> \o page.image_elements[i].image_path,
                  text |-> <<>>]]
      txts == [i \in 1..Len(page.text_elements) |->
                 [class |-> "Basic-Text-Frame",
                  left |-> Round1(page.text_elements[i].x0),
                  top |-> Round1(page.text_elements[i].y0),
                  src |-> <<>>,
                  text |-> page.text_elements[i].text]]
  IN  [type |-> "xml", ok |-> TRUE, root |-> "html",
       texts |-> <<PageTitle(page.page_num)>>
                 \o [i \in 1..Len(page.text_elements) |-> page.text_elements[i].text],
       viewport |-> <<page.page_width \div 100, page.page_height \div 100>>,
       body |-> txts \o imgs]

\* _generate_page_xhtml: the body holds one container per image, then one per
\* text element
GeneratePageXhtml(page) ==
  LET imgs == [i \in 1..Len(page.image_elements) |->
                 [class |-> "Basic-Graphics-Frame",
                  left |-> Fmt1f(page.image_elements[i].x0),
                  top |-> Fmt1f(page.image_elements[i].y0),
                  src |-> <<"images/">> \o page.image_elements[i].image_path,
                  text |-> <<>>]]
      txts == [i \in 1..Len(page.text_elements) |->
                 [class |-> "Basic-Text-Frame",
                  left |-> Fmt1f(page.text_elements[i].x0),
                  top |-> Fmt1f(page.text_elements[i].y0),
                  src |-> <<>>,
                  text |-> page.text_elements[i].text]]
  IN  [type |-> "xml", ok |-> TRUE, root |-> "html",
       texts |-> <<PageTitle(page.page_num)>>
                 \o [i \in 1..Len(page.text_elements) |-> page.text_elements[i].text],
       viewport |-> <<page.page_width \div 100, page.page_height \div 100>>,
       body |-> imgs \o txts]

RECURSIVE CreatePageXhtmlFiles(_, _)
\* _create_page_xhtml_files
CreatePageXhtmlFiles(tree, pages_content) ==
  IF pages_content = <<>> THEN tree
  ELSE CreatePageXhtmlFiles(
         WriteFile(tree, PageName(Head(pages_content).page_num),
                   GeneratePageXhtml(Head(pages_content))),
         Tail(pages_content))

\* _create_stylesheet
CreateStylesheet(tree) == WriteFile(tree, CssName, CssData)

Reverse(s) == [i \in 1..Len(s) |-> s[Len(s) + 1 - i]]

\* The order in which os.walk meets the files of the tree. The order of a
\* directory listing is the file system's: the model lets it be the order of
\* creation ("fwd") or its reverse ("rev").
ListingOrders == {"fwd", "rev"}

WalkFiles(tree, order) ==
  LET list(s) == IF order = "fwd" THEN s ELSE Reverse(s)
      top == SelectSeq(tree, LAMBDA f : Head(f.name) \notin DirTokens)
      meta == SelectSeq(tree, LAMBDA f : Head(f.name) = "META-INF/")
      oebps == SelectSeq(tree, LAMBDA f : Head(f.name) = "OEBPS/" /\ f.name[2] # "images/")
      imgs == SelectSeq(tree, LAMBDA f : Head(f.name) = "OEBPS/" /\ f.name[2] = "images/")
      sub == IF order = "fwd"
             THEN list(meta) \o list(oebps) \o list(imgs)
             ELSE list(oebps) \o list(imgs) \o list(meta)
  IN  list(top) \o sub

ZipEntry(name, compress, data) == [name |-> name, compress |-> compress, data |-> data]

\* What is at the output path
EpubMissing == [kind |-> "missing"]
EpubGarbage == [kind |-> "garbage"]
EpubZip(entries) == [kind |-> "zip", entries |-> entries]

\* _package_epub without the marker's special case: every file the walk
\* meets, the marker among them, deflated
PackageEpubWalkOnly(tree, order) ==
  LET all == WalkFiles(tree, order)
  IN  [raised |-> FALSE,
       epub |-> EpubZip([i \in 1..Len(all) |->
                           ZipEntry(all[i].name, ZIP_DEFLATED, all[i].data)])]

\* _package_epub: the marker first, stored; then every other file the walk
\* meets whose name is not "mimetype", deflated. Reading a marker file that
\* is not there raises inside the open archive, which is then closed empty.
PackageEpub(tree, order) ==
  IF ~HasFile(tree, MimetypeName)
  THEN [raised |-> TRUE, epub |-> EpubZip(<<>>)]
  ELSE LET mimetype_content == tree[FileData(tree, MimetypeName)].data
           others == SelectSeq(WalkFiles(tree, order),
                               LAMBDA f : Basename(f.name) # MimetypeName)
       IN  [raised |-> FALSE,
            epub |-> EpubZip(<<ZipEntry(MimetypeName, ZIP_STORED, mimetype_content)>>
                             \o [i \in 1..Len(others) |->
                                   ZipEntry(others[i].name, ZIP_DEFLATED, others[i].data)])]

NoScratch == [exists |-> FALSE, files |-> <<>>]
Scratch(tree) == [exists |-> TRUE, files |-> tree]

\* EPUBGeneratorV2(output_path).generate(pages_content, metadata, images_source_dir):
\* the scratch directory and the output file afterwards. An empty page
\* sequence raises in _create_package_opf and leaves the scratch directory.
GenerateV2(pages_content, metadata, files, order, old_epub) ==
  LET t1 == CopyImages(SetupStructure, files)
      t2 == CreateContainerXml(t1)
  IN  IF pages_content = <<>>
      THEN [raised |-> TRUE, scratch |-> Scratch(t2), epub |-> old_epub]
      ELSE LET t3 == CreatePackageOpf(t2, pages_content, metadata)
               t4 == CreateTocNcx(t3, pages_content)
               t5 == CreateNavXhtml(t4, pages_content)
               t6 == CreatePageXhtmlFiles(t5, pages_content)
               t7 == CreateStylesheet(t6)
               z == PackageEpub(t7, order)
           IN  [raised |-> z.raised,
                scratch |-> IF z.raised THEN Scratch(t7) ELSE NoScratch,
                epub |-> z.epub]

\* generate() of EPUBGeneratorV2 whose scratch directory is cleared under it
\* while _package_epub walks it: another EPUBGeneratorV2 is constructed, and
\* its _setup_structure removes and re-creates the same /tmp/epub_temp_v2.
\* The marker and k files of the walk are in the archive by then; epub.write
\* raises on the next file, leaving the with block closes the archive with
\* the entries written so far, and the rmtree after it is not reached.
GenerateV2Interrupted(pages_content, metadata, files, order, k) ==
  LET t1 == CopyImages(SetupStructure, files)
      t2 == CreateContainerXml(t1)
      t3 == CreatePackageOpf(t2, pages_content, metadata)
      t4 == CreateTocNcx(t3, pages_content)
      t5 == CreateNavXhtml(t4, pages_content)
      t6 == CreatePageXhtmlFiles(t5, pages_content)
      t7 == CreateStylesheet(t6)
      whole == PackageEpub(t7, order).epub.entries
  IN  [raised |-> TRUE,
       scratch |-> Scratch(SetupStructure),
       total |-> Len(whole),
       epub |-> EpubZip(SubSeq(whole, 1, IF k + 1 < Len(whole) THEN k + 1
                                         ELSE Len(whole) - 1))]

\* ------------------------------------------------- EPUBGenerator (legacy)
\* _create_package_opf of the legacy generator: no navigation item, no
\* viewport, page-spread properties on the spine
LegacyPackageOpf(pages_content, metadata) ==
  [type |-> "xml", ok |-> TRUE, root |-> "package", texts |-> <<>>,
   manifest |->
      << ManifestItem(<<"stylesheet">>, <<"styles", ".css">>, "text/css", "") >>
      \o [i \in 1..Len(pages_content) |->
            ManifestItem(PageId(pages_content[i].page_num),
                         PageHref(pages_content[i].page_num),
                         "application/xhtml+xml",
                         IF pages_content[i].image_elements # <<>> THEN "svg" ELSE "")],
   image_items |->
      {ManifestItem(<<"image_">> \o ReplaceDots(f), <<"images/">> \o f, "image/png", "") :
         f \in ImageFiles(pages_content)},
   spine |-> [i \in 1..Len(pages_content) |->
                [idref |-> PageId(pages_content[i].page_num),
                 properties |-> IF pages_content[i].page_num % 2 = 1
                                THEN "page-spread-right" ELSE "page-spread-left"]]]

\* _generate_page_xhtml of the legacy generator: the page container holds the
\* images, then the text elements
LegacyGeneratePageXhtml(page) ==
  LET imgs == [i \in 1..Len(page.image_elements) |->
                 [class |-> "image-element",
                  left |-> page.image_elements[i].x0,
                  top |-> page.image_elements[i].y0,
                  src |-> <<"images/">> \o page.image_elements[i].image_path,
                  text |-> <<>>]]
      txts == [i \in 1..Len(page.text_elements) |->
                 [class |-> "text-element",
                  left |-> page.text_elements[i].x0,
                  top |-> page.text_elements[i].y0,
                  src |-> <<>>,
                  text |-> page.text_elements[i].text]]
  IN  [type |-> "xml", ok |-> TRUE, root |-> "html",
       texts |-> <<PageTitle(page.page_num)>>
                 \o [i \in 1..Len(page.text_elements) |-> page.text_elements[i].text],
       viewport |-> <<page.page_width, page.page_height>>,
       body |-> imgs \o txts]

RECURSIVE LegacyCreatePageXhtmlFiles(_, _)
LegacyCreatePageXhtmlFiles(tree, pages_content) ==
  IF pages_content = <<>> THEN tree
  ELSE LegacyCreatePageXhtmlFiles(
         WriteFile(tree, PageName(Head(pages_content).page_num),
                   LegacyGeneratePageXhtml(Head(pages_content))),
         Tail(pages_content))

\* EPUBGenerator(output_path).generate(...): as EPUBGeneratorV2, without the
\* navigation document; nothing in it reads pages_content[0].
GenerateLegacy(pages_content, metadata, files, order, old_epub) ==
  LET t1 == CopyImages(SetupStructure, files)
      t2 == CreateContainerXml(t1)
      t3 == WriteFile(t2, OpfName, LegacyPackageOpf(pages_content, metadata))
      t4 == CreateTocNcx(t3, pages_content)
      t6 == LegacyCreatePageXhtmlFiles(t4, pages_content)
      t7 == CreateStylesheet(t6)
      z == PackageEpub(t7, order)
  IN  [raised |-> z.raised,
       scratch |-> IF z.raised THEN Scratch(t7) ELSE NoScratch,
       epub |-> z.epub]

\* ------------------------------------------------------- ContentValidator
\* An issue or warning string: its fixed text and what is interpolated.
Message(msg, arg) == [msg |-> msg, arg |-> arg]

\* A check result (its details, which nothing reads, are left out).
CheckResult(name, passed) == [name |-> name, passed |-> passed]

\* The outcome of one check: its result and the validator's two lists after it.
Outcome(name, passed, issues, warnings) ==
  [check |-> CheckResult(name, passed), issues |-> issues, warnings |-> warnings]

EpubExists(e) == e.kind # "missing"
\* whether ZipFile(path, 'r') opens it
EpubOpens(e) == e.kind = "zip"
\* the exception pdfplumber.open / ZipFile raise on it
PdfError(f) == IF f.kind = "missing" THEN <<"FileNotFoundError">> ELSE <<"PDFSyntaxError">>
EpubError(e) == IF e.kind = "missing" THEN <<"FileNotFoundError">> ELSE <<"BadZipFile">>

\* epub.namelist()
Namelist(e) == [i \in 1..Len(e.entries) |-> e.entries[i].name]

InNamelist(e, name) == \E i \in 1..Len(e.entries) : e.entries[i].name = name

\* epub.read(name): the content of the last entry of that name
ReadEntry(e, name) ==
  LET last == CHOOSE i \in 1..Len(e.entries) :
                 /\ e.entries[i].name = name
                 /\ \A j \in (i + 1)..Len(e.entries) : e.entries[j].name # name
  IN  e.entries[last].data

\* whether etree.fromstring accepts the content
ParsesAsXml(data) == data.type = "xml" /\ data.ok

\* _check_files_exist
CheckFilesExist(v, f, e) ==
  LET i1 == IF ~PdfExists(f)
            THEN Append(v.issues, Message("Source PDF not found", <<>>)) ELSE v.issues
      i2 == IF ~EpubExists(e)
            THEN Append(i1, Message("Output EPUB not found", <<>>)) ELSE i1
  IN  Outcome("File Existence", PdfExists(f) /\ EpubExists(e), i2, v.warnings)

RequiredFiles == <<MimetypeName, ContainerName, OpfName>>

RECURSIVE MissingRequired(_, _)
\* one issue per required file that is not in the archive, in list order
MissingRequired(e, required) ==
  IF required = <<>> THEN <<>>
  ELSE (IF ~InNamelist(e, Head(required))
        THEN <<Message("Missing required EPUB file", Head(required))>> ELSE <<>>)
       \o MissingRequired(e, Tail(required))

\* [f for f in epub.namelist() if f.endswith('.xhtml')]
XhtmlFiles(e) == SelectSeq(Namelist(e), LAMBDA n : EndsWith(n, ".xhtml"))

\* _check_epub_structure
CheckEpubStructure(v, f, e) ==
  IF ~EpubOpens(e)
  THEN Outcome("EPUB Structure", FALSE,
               Append(v.issues, Message("Failed to read EPUB", EpubError(e))), v.warnings)
  ELSE LET missing == MissingRequired(e, RequiredFiles)
           nopages == IF Len(XhtmlFiles(e)) = 0
                      THEN <<Message("No XHTML page files found in EPUB", <<>>)>> ELSE <<>>
       IN  Outcome("EPUB Structure", missing = <<>> /\ nopages = <<>>,
                   v.issues \o missing \o nopages, v.warnings)

\* _check_page_count
CheckPageCount(v, f, e) ==
  IF ~PdfOpens(f)
  THEN Outcome("Page Count", FALSE,
               Append(v.issues, Message("Could not verify page count", PdfError(f))),
               v.warnings)
  ELSE IF ~EpubOpens(e)
  THEN Outcome("Page Count", FALSE,
               Append(v.issues, Message("Could not verify page count", EpubError(e))),
               v.warnings)
  ELSE LET pdf_pages == Len(f.pages)
           epub_pages == Len(XhtmlFiles(e))
       IN  IF pdf_pages # epub_pages
           THEN Outcome("Page Count", FALSE,
                        Append(v.issues,
                               Message("Page count mismatch",
                                       Digits(pdf_pages) \o <<",">> \o Digits(epub_pages))),
                        v.warnings)
           ELSE Outcome("Page Count", TRUE, v.issues, v.warnings)

\* sum of len(page.images) over the source's pages
PdfImageCount(f) == SumSeq([i \in 1..Len(f.pages) |-> Len(f.pages[i].images)])

\* [f for f in epub.namelist() if f.startswith('OEBPS/images/') and not 'reference' in f]
EpubImages(e) ==
  SelectSeq(Namelist(e),
            LAMBDA n : StartsWith(n, <<"OEBPS/", "images/">>) /\ ~Contains(n, "reference"))

\* _check_images_present with any loss of images taken as an issue
CheckImagesPresentAnyLoss(v, f, e) ==
  IF ~PdfOpens(f)
  THEN Outcome("Image Preservation", TRUE, v.issues,
               Append(v.warnings, Message("Could not verify images", PdfError(f))))
  ELSE IF ~EpubOpens(e)
  THEN Outcome("Image Preservation", TRUE, v.issues,
               Append(v.warnings, Message("Could not verify images", EpubError(e))))
  ELSE IF PdfImageCount(f) > 0 /\ Len(EpubImages(e)) < PdfImageCount(f)
  THEN Outcome("Image Preservation", FALSE,
               Append(v.issues, Message("Images not preserved in EPUB", <<>>)),
               v.warnings)
  ELSE Outcome("Image Preservation", TRUE, v.issues, v.warnings)

\* _check_images_present
CheckImagesPresent(v, f, e) ==
  IF ~PdfOpens(f)
  THEN Outcome("Image Preservation", TRUE, v.issues,
               Append(v.warnings, Message("Could not verify images", PdfError(f))))
  ELSE IF ~EpubOpens(e)
  THEN Outcome("Image Preservation", TRUE, v.issues,
               Append(v.warnings, Message("Could not verify images", EpubError(e))))
  ELSE LET pdf_image_count == PdfImageCount(f)
           epub_image_count == Len(EpubImages(e))
       IN  IF pdf_image_count > 0 /\ epub_image_count = 0
           THEN Outcome("Image Preservation", FALSE,
                        Append(v.issues, Message("Images not preserved in EPUB", <<>>)),
                        v.warnings)
           ELSE IF pdf_image_count > 0 /\ epub_image_count < pdf_image_count
           THEN Outcome("Image Preservation", TRUE, v.issues,
                        Append(v.warnings,
                               Message("Some images may be missing",
                                       Digits(pdf_image_count) \o <<",">>
                                       \o Digits(epub_image_count))))
           ELSE Outcome("Image Preservation", TRUE, v.issues, v.warnings)

\* sum of len(page.extract_text()) over the source's pages
PdfTextChars(f) == SumSeq([i \in 1..Len(f.pages) |-> f.pages[i].textlen])

\* the characters of the text nodes of one archive member; 0 when reading
\* or parsing it fails (the bare except)
MemberTextChars(e, name) ==
  LET data == ReadEntry(e, name)
  IN  IF ParsesAsXml(data)
      THEN SumSeq([i \in 1..Len(data.texts) |-> Len(data.texts[i])])
      ELSE 0

\* the total over [f for f in epub.namelist() if f.endswith('.xhtml') and 'page' in f]
EpubTextChars(e) ==
  LET xhtml_files == SelectSeq(Namelist(e),
                               LAMBDA n : EndsWith(n, ".xhtml") /\ Contains(n, "page"))
  IN  SumSeq([i \in 1..Len(xhtml_files) |-> MemberTextChars(e, xhtml_files[i])])

\* the tolerance test with the boundary on the warning side
AtOrBelowTolerance(epub_text_chars, pdf_text_chars) == 5 * epub_text_chars <= 4 * pdf_text_chars

\* epub_text_chars < pdf_text_chars * 0.8
BelowTolerance(epub_text_chars, pdf_text_chars) == 5 * epub_text_chars < 4 * pdf_text_chars

\* _check_text_content with the check marked failed whenever it warns
CheckTextContentFailing(v, f, e) ==
  IF ~PdfOpens(f)
  THEN Outcome("Text Content", FALSE, v.issues,
               Append(v.warnings, Message("Could not verify text", PdfError(f))))
  ELSE IF ~EpubOpens(e)
  THEN Outcome("Text Content", FALSE, v.issues,
               Append(v.warnings, Message("Could not verify text", EpubError(e))))
  ELSE IF PdfTextChars(f) > 0 /\ EpubTextChars(e) = 0
  THEN Outcome("Text Content", FALSE, v.issues,
               Append(v.warnings, Message("No text content found in EPUB", <<>>)))
  ELSE IF PdfTextChars(f) > 0 /\ BelowTolerance(EpubTextChars(e), PdfTextChars(f))
  THEN Outcome("Text Content", FALSE, v.issues,
               Append(v.warnings, Message("Text content may be incomplete", <<>>)))
  ELSE Outcome("Text Content", TRUE, v.issues, v.warnings)

\* _check_text_content
CheckTextContent(v, f, e) ==
  IF ~PdfOpens(f)
  THEN Outcome("Text Content", TRUE, v.issues,
               Append(v.warnings, Message("Could not verify text", PdfError(f))))
  ELSE IF ~EpubOpens(e)
  THEN Outcome("Text Content", TRUE, v.issues,
               Append(v.warnings, Message("Could not verify text", EpubError(e))))
  ELSE LET pdf_text_chars == PdfTextChars(f)
           epub_text_chars == EpubTextChars(e)
       IN  IF pdf_text_chars > 0 /\ epub_text_chars = 0
           THEN Outcome("Text Content", TRUE, v.issues,
                        Append(v.warnings, Message("No text content found in EPUB", <<>>)))
           ELSE IF pdf_text_chars > 0 /\ BelowTolerance(epub_text_chars, pdf_text_chars)
           THEN Outcome("Text Content", TRUE, v.issues,
                        Append(v.warnings, Message("Text content may be incomplete", <<>>)))
           ELSE Outcome("Text Content", TRUE, v.issues, v.warnings)

\* epub.read('mimetype').decode('utf-8').strip() != 'application/epub+zip'
InvalidMimetype(content) == Strip(content) # MIMETYPE

RECURSIVE InvalidXml(_, _)
\* one issue per member named *.xhtml, *.opf or *.ncx that does not parse,
\* in namelist order
InvalidXml(e, names) ==
  IF names = <<>> THEN <<>>
  ELSE LET n == Head(names)
       IN  (IF /\ EndsWith(n, ".xhtml") \/ EndsWith(n, ".opf") \/ EndsWith(n, ".ncx")
               /\ ~ParsesAsXml(ReadEntry(e, n))
            THEN <<Message("Invalid XML in", n)>> ELSE <<>>)
           \o InvalidXml(e, Tail(names))

\* _check_epub_validity
CheckEpubValidity(v, f, e) ==
  IF ~EpubOpens(e)
  THEN Outcome("EPUB Validity", FALSE,
               Append(v.issues, Message("Could not validate EPUB", EpubError(e))),
               v.warnings)
  ELSE IF ~InNamelist(e, MimetypeName)
  THEN Outcome("EPUB Validity", FALSE,
               Append(v.issues, Message("Could not validate EPUB", <<"KeyError">>)),
               v.warnings)
  ELSE LET mimetype == ReadEntry(e, MimetypeName).bytes
           bad == IF InvalidMimetype(mimetype)
                  THEN <<Message("Invalid mimetype", Strip(mimetype))>> ELSE <<>>
           xml == InvalidXml(e, Namelist(e))
       IN  Outcome("EPUB Validity", bad = <<>> /\ xml = <<>>,
                   v.issues \o bad \o xml, v.warnings)

\* ContentValidator(pdf_path, epub_path)
NewValidator == [issues |-> <<>>, warnings |-> <<>>]

\* validate() running the structure check before the file check
RunChecksStructureFirst(v, f, e) ==
  Let(CheckEpubStructure(v, f, e), LAMBDA c1 :
  Let(CheckFilesExist(c1, f, e), LAMBDA c2 :
  Let(CheckPageCount(c2, f, e), LAMBDA c3 :
  Let(CheckImagesPresent(c3, f, e), LAMBDA c4 :
  Let(CheckTextContent(c4, f, e), LAMBDA c5 :
  Let(CheckEpubValidity(c5, f, e), LAMBDA c6 :
    <<c1, c2, c3, c4, c5, c6>>))))))

\* The six checks in the order validate() runs them, each on the lists the
\* one before left: the six outcomes.
RunChecks(v, f, e) ==
  Let(CheckFilesExist(v, f, e), LAMBDA c1 :
  Let(CheckEpubStructure(c1, f, e), LAMBDA c2 :
  Let(CheckPageCount(c2, f, e), LAMBDA c3 :
  Let(CheckImagesPresent(c3, f, e), LAMBDA c4 :
  Let(CheckTextContent(c4, f, e), LAMBDA c5 :
  Let(CheckEpubValidity(c5, f, e), LAMBDA c6 :
    <<c1, c2, c3, c4, c5, c6>>))))))

\* validate() with the status taken from both lists
ValidateStrict(v, f, e) ==
  Let(RunChecks(v, f, e), LAMBDA c :
    [validator |-> [issues |-> c[6].issues, warnings |-> c[6].warnings],
     report |-> [validation_checks |-> [k \in 1..6 |-> c[k].check],
                 overall_status |-> Len(c[6].issues) = 0 /\ Len(c[6].warnings) = 0],
     marks |-> [issues |-> <<Len(v.issues)>> \o [k \in 1..6 |-> Len(c[k].issues)],
                warnings |-> <<Len(v.warnings)>> \o [k \in 1..6 |-> Len(c[k].warnings)]]])

\* validate() on a validator whose lists are v, with f at the source path and
\* e at the output path: the validator's lists afterwards and the report.
\* The report's 'issues' and 'warnings' are the validator's own list objects
\* (lines 54-55), so the report holds no copy of them. marks is history: the
\* lengths of the two lists before the first check and after each check.
Validate(v, f, e) ==
  Let(RunChecks(v, f, e), LAMBDA c :
    [validator |-> [issues |-> c[6].issues, warnings |-> c[6].warnings],
     report |-> [validation_checks |-> [k \in 1..6 |-> c[k].check],
                 overall_status |-> Len(c[6].issues) = 0],
     marks |-> [issues |-> <<Len(v.issues)>> \o [k \in 1..6 |-> Len(c[k].issues)],
                warnings |-> <<Len(v.warnings)>> \o [k \in 1..6 |-> Len(c[k].warnings)]]])

vars == <<pdf, epub, workimgs, extracted, scratch, generated, lastgen, conv,
          validator, reports, observed, env, call, textlog, gens>>

pipeVars == <<workimgs, extracted, scratch, generated, lastgen, conv, textlog, gens>>
valVars == <<validator, reports, observed, env, call>>

NotExtracted == [status |-> "none", pages |-> <<>>, metadata |-> NoMetadata]
NotGenerated == [by |-> "none", pages |-> <<>>]
NoGenerate == [by |-> "none", raised |-> FALSE]
NotConverted == [status |-> "none"]
NoValidator == [exists |-> FALSE, issues |-> <<>>, warnings |-> <<>>]
NoCall == [pc |-> "idle", n |-> 0, checks |-> <<>>, hit |-> <<>>, marks |-> <<>>]

\* the two EPUBGeneratorV2 instances a client can hold
Generators == {"A", "B"}
NoInput == [pages |-> <<>>, metadata |-> NoMetadata, files |-> {}]
NoInstance == [pc |-> "none", clean |-> TRUE, input |-> NoInput, results |-> <<>>]
NoGens == [g \in Generators |-> NoInstance]

\* ------------------------------------------------- the pipeline's actions
\* PDFExtractor(pdf_path, output_dir).extract_all(), called by a client
Extract ==
  \E x \in {ExtractAll(pdf)} :
      /\ extracted' = [status |-> IF x.raised THEN "raised" ELSE "ok",
                       pages |-> x.pages, metadata |-> x.metadata]
      /\ workimgs' = workimgs \cup x.files
      /\ UNCHANGED <<pdf, epub, scratch, generated, lastgen, conv>>
      /\ UNCHANGED valVars
      /\ UNCHANGED <<textlog, gens>>

\* EPUBGeneratorV2(output_path).generate(pages, metadata, images_dir), called
\* by a client with what extract_all() returned
RunGeneratorV2(order) ==
  /\ extracted.status = "ok"
  /\ \E g \in {GenerateV2(extracted.pages, extracted.metadata, workimgs, order, epub)} :
         /\ epub' = g.epub
         /\ scratch' = [scratch EXCEPT !.v2 = g.scratch]
         /\ generated' = IF g.raised THEN generated
                         ELSE [by |-> "v2", pages |-> extracted.pages]
         /\ lastgen' = [by |-> "v2", raised |-> g.raised]
  /\ UNCHANGED <<pdf, workimgs, extracted, conv>>
  /\ UNCHANGED valVars
  /\ UNCHANGED <<textlog, gens>>

\* The same call, with a second EPUBGeneratorV2 constructed while the first
\* one packages, after k files of the walk were written
RunGeneratorV2Interrupted(order, k) ==
  /\ extracted.status = "ok"
  /\ extracted.pages # <<>>
  /\ \E g \in {GenerateV2Interrupted(extracted.pages, extracted.metadata,
                                      workimgs, order, k)} :
         /\ k + 1 < g.total
         /\ epub' = g.epub
         /\ scratch' = [scratch EXCEPT !.v2 = g.scratch]
         /\ generated' = NotGenerated
         /\ lastgen' = [by |-> "v2", raised |-> TRUE]
  /\ UNCHANGED <<pdf, workimgs, extracted, conv>>
  /\ UNCHANGED valVars
  /\ UNCHANGED <<textlog, gens>>

\* EPUBGenerator(output_path).generate(pages, metadata, images_dir)
RunGeneratorLegacy(order) ==
  /\ extracted.status = "ok"
  /\ \E g \in {GenerateLegacy(extracted.pages, extracted.metadata, workimgs, order, epub)} :
         /\ epub' = g.epub
         /\ scratch' = [scratch EXCEPT !.v1 = g.scratch]
         /\ generated' = IF g.raised THEN generated
                         ELSE [by |-> "v1", pages |-> extracted.pages]
         /\ lastgen' = [by |-> "v1", raised |-> g.raised]
  /\ UNCHANGED <<pdf, workimgs, extracted, conv>>
  /\ UNCHANGED valVars
  /\ UNCHANGED <<textlog, gens>>

\* PDFtoEPUBConverter.convert(validate): the three steps and what they leave.
\* The report written to validation_report.json is a copy by value.
ConvertOutcome(f, files, old_epub, validate, order) ==
  Let(ExtractAll(f), LAMBDA x :
    IF x.raised
    THEN [raised |-> TRUE, ran |-> FALSE, files |-> files]
    ELSE
  Let(GenerateV2(x.pages, x.metadata, files \cup x.files, order, old_epub), LAMBDA g :
    IF g.raised
    THEN [raised |-> TRUE, ran |-> TRUE, files |-> files \cup x.files, gen |-> g]
    ELSE IF ~validate
    THEN [raised |-> FALSE, ran |-> TRUE, files |-> files \cup x.files, gen |-> g,
          pages |-> x.pages, validated |-> FALSE]
    ELSE
  Let(Validate(NewValidator, f, g.epub), LAMBDA r :
         [raised |-> FALSE, ran |-> TRUE, files |-> files \cup x.files, gen |-> g,
          pages |-> x.pages, validated |-> TRUE,
          report |-> [validation_checks |-> r.report.validation_checks,
                      issues |-> r.validator.issues,
                      warnings |-> r.validator.warnings,
                      overall_status |-> r.report.overall_status]])))

Convert(validate, order) ==
  \E c \in {ConvertOutcome(pdf, workimgs, epub, validate, order)} :
      /\ workimgs' = c.files
      /\ epub' = IF c.ran THEN c.gen.epub ELSE epub
      /\ scratch' = IF c.ran THEN [scratch EXCEPT !.v2 = c.gen.scratch] ELSE scratch
      /\ generated' = IF c.raised THEN generated ELSE [by |-> "v2", pages |-> c.pages]
      /\ lastgen' = IF c.ran THEN [by |-> "v2", raised |-> c.gen.raised] ELSE lastgen
      /\ conv' = IF c.raised THEN [status |-> "raised"]
                 ELSE IF c.validated
                 THEN [status |-> "ok", validated |-> TRUE, wrote |-> c.gen.epub,
                       report |-> c.report]
                 ELSE [status |-> "ok", validated |-> FALSE, wrote |-> c.gen.epub]
      /\ UNCHANGED <<pdf, extracted>>
      /\ UNCHANGED valVars
      /\ UNCHANGED <<textlog, gens>>

Init ==
  /\ pdf \in SourceFiles(MaxPages)
  /\ epub = EpubMissing
  /\ workimgs = {}
  /\ extracted = NotExtracted
  /\ scratch = [v1 |-> NoScratch, v2 |-> NoScratch]
  /\ generated = NotGenerated
  /\ lastgen = NoGenerate
  /\ conv = NotConverted
  /\ validator = NoValidator
  /\ reports = <<>>
  /\ observed = <<>>
  /\ env = 0
  /\ call = NoCall
  /\ textlog = <<>>
  /\ gens = NoGens

Next ==
  \/ Extract
  \/ \E order \in ListingOrders : RunGeneratorV2(order)
  \/ \E order \in ListingOrders, k \in 0..MaxWritten : RunGeneratorV2Interrupted(order, k)
  \/ \E order \in ListingOrders : RunGeneratorLegacy(order)
  \/ \E validate \in BOOLEAN, order \in ListingOrders : Convert(validate, order)

\* The pipeline and the generators, from a source and no output file.
Spec == Init /\ [][Next]_vars

\* ------------------------------------------ the validator and the output file
\* ContentValidator(pdf_path, epub_path), built by a client
CreateValidator ==
  /\ ~validator.exists
  /\ validator' = [exists |-> TRUE, issues |-> <<>>, warnings |-> <<>>]
  /\ UNCHANGED <<reports, observed, env, call, pdf, epub>>
  /\ UNCHANGED pipeVars

\* validator.validate(): the report is appended to those the client holds;
\* observed keeps the files the call found and where each check's messages
\* lie in the validator's lists.
CallValidate ==
  /\ validator.exists
  /\ Len(reports) < MaxValidate
  /\ \E r \in {Validate(validator, pdf, epub)} :
        /\ validator' = [exists |-> TRUE,
                         issues |-> r.validator.issues,
                         warnings |-> r.validator.warnings]
        /\ reports' = Append(reports, r.report)
        /\ observed' = Append(observed,
                              [pdf |-> pdf, epub |-> epub, marks |-> r.marks])
  /\ UNCHANGED <<env, call, pdf, epub>>
  /\ UNCHANGED pipeVars

RemoveAt(s, i) == SubSeq(s, 1, i - 1) \o SubSeq(s, i + 1, Len(s))

\* The environment (another program, a failing disk) changes the output file.
EnvChange(new_epub) ==
  /\ env < MaxEnv
  /\ env' = env + 1
  /\ epub' = new_epub
  /\ UNCHANGED <<pdf, validator, reports, observed, call>>
  /\ UNCHANGED pipeVars

\* the file is deleted
EnvDelete == EpubExists(epub) /\ EnvChange(EpubMissing)

\* the file is overwritten with something that is no archive
EnvGarble == epub.kind = "zip" /\ EnvChange(EpubGarbage)

\* one member is dropped from the archive
EnvRemoveEntry ==
  /\ epub.kind = "zip"
  /\ \E i \in 1..Len(epub.entries) : EnvChange(EpubZip(RemoveAt(epub.entries, i)))

\* marker contents other than the required one
MimetypeVariants ==
  { <<"application/epub">>, MIMETYPE \o <<"\n">>, <<" ">> \o MIMETYPE }

\* the marker's content is replaced
EnvRewriteMimetype ==
  /\ epub.kind = "zip"
  /\ \E i \in 1..Len(epub.entries), content \in MimetypeVariants :
        /\ epub.entries[i].name = MimetypeName
        /\ EnvChange(EpubZip([epub.entries EXCEPT ![i].data = BytesData(content)]))

\* one markup document is damaged so that it no longer parses
EnvCorruptXml ==
  /\ epub.kind = "zip"
  /\ \E i \in 1..Len(epub.entries) :
        /\ ParsesAsXml(epub.entries[i].data)
        /\ EnvChange(EpubZip([epub.entries EXCEPT ![i].data.ok = FALSE]))

\* members another program may add: a markup document that is no page, and
\* one more image
ForeignEntries ==
  { ZipEntry(<<"OEBPS/", "cover", ".xhtml">>, ZIP_DEFLATED,
             [type |-> "xml", ok |-> TRUE, root |-> "html", texts |-> <<>>]),
    ZipEntry(<<"OEBPS/", "images/", "cover", ".png">>, ZIP_DEFLATED, PngData) }

EnvAddEntry ==
  /\ epub.kind = "zip"
  /\ \E entry \in ForeignEntries :
        /\ ~InNamelist(epub, entry.name)
        /\ EnvChange(EpubZip(Append(epub.entries, entry)))

\* the text of one page document is cut down to c characters
EnvRewritePage ==
  /\ epub.kind = "zip"
  /\ \E i \in 1..Len(epub.entries), c \in 0..MaxDocChars :
        /\ EndsWith(epub.entries[i].name, ".xhtml")
        /\ Contains(epub.entries[i].name, "page")
        /\ ParsesAsXml(epub.entries[i].data)
        /\ EnvChange(EpubZip([epub.entries EXCEPT
                                ![i].data.texts =
                                   IF c = 0 THEN <<>> ELSE <<[k \in 1..c |-> "x"]>>]))

\* The generator runs that can have written the output file for source f
\* before the validator is used: none, or either generator on what
\* extract_all() returns for f.
PriorRuns(f) ==
  {[epub |-> EpubMissing, generated |-> NotGenerated, files |-> {}]}
  \cup
  (IF ~PdfOpens(f) THEN {}
   ELSE Let(ExtractAll(f), LAMBDA x :
          {[epub |-> GenerateLegacy(x.pages, x.metadata, x.files, order, EpubMissing).epub,
            generated |-> [by |-> "v1", pages |-> x.pages],
            files |-> x.files] : order \in ListingOrders}
          \cup
          (IF x.pages = <<>> THEN {}
           ELSE {[epub |-> GenerateV2(x.pages, x.metadata, x.files, order, EpubMissing).epub,
                  generated |-> [by |-> "v2", pages |-> x.pages],
                  files |-> x.files] : order \in ListingOrders})))

InitV ==
  /\ pdf \in SourceFiles(MaxValPages)
  /\ \E run \in PriorRuns(pdf) :
        /\ epub = run.epub
        /\ generated = run.generated
        /\ lastgen = [by |-> run.generated.by, raised |-> FALSE]
        /\ workimgs = run.files
  /\ extracted = NotExtracted
  /\ scratch = [v1 |-> NoScratch, v2 |-> NoScratch]
  /\ conv = NotConverted
  /\ validator = NoValidator
  /\ reports = <<>>
  /\ observed = <<>>
  /\ env = 0
  /\ call = NoCall
  /\ textlog = <<>>
  /\ gens = NoGens

NextV ==
  \/ CreateValidator
  \/ CallValidate
  \/ EnvDelete
  \/ EnvGarble
  \/ EnvRemoveEntry
  \/ EnvRewriteMimetype
  \/ EnvCorruptXml
  \/ EnvAddEntry
  \/ EnvRewritePage

\* A client's validator, used on the output of a generator run while the
\* environment may change the output file.
SpecV == InitV /\ [][NextV]_vars

\* ------------------------------------------------------------ properties
\* the issues and the warnings check k of the i-th validate() call appended
IssuesBy(i, k) ==
  SubSeq(validator.issues, observed[i].marks.issues[k] + 1, observed[i].marks.issues[k + 1])
WarningsBy(i, k) ==
  SubSeq(validator.warnings,
         observed[i].marks.warnings[k] + 1, observed[i].marks.warnings[k + 1])

\* report['issues'] and report['warnings'] of the i-th report: the validator's
\* own lists, as they are now
ReportIssues(i) == validator.issues
ReportWarnings(i) == validator.warnings

\* how many messages of s carry one of the texts in msgs
CountOf(s, msgs) == Len(SelectSeq(s, LAMBDA m : m.msg \in msgs))

\* whether the i-th call could read both files
Readable(i) == PdfOpens(observed[i].pdf) /\ EpubOpens(observed[i].epub)

\* C1: the report validate() has just returned (and until the next call on
\* the instance) has overall_status true exactly when its issues list is
\* empty, whatever the source and output files are and however many warnings
\* it holds.
C1_StatusIffNoIssues ==
  reports # <<>> =>
    (reports[Len(reports)].overall_status <=> ReportIssues(Len(reports)) = <<>>)

\* C1 happens: a report with warnings, no issue and overall_status true
C1_Witness ==
  /\ reports # <<>>
  /\ reports[Len(reports)].overall_status
  /\ ReportIssues(Len(reports)) = <<>>
  /\ ReportWarnings(Len(reports)) # <<>>

\* C2: at all times, every report returned so far has overall_status false
\* when its issues list is non-empty, and true when it holds no issue (with
\* or without warnings), also after later validate() calls on the instance.
C2_Monotonic ==
  \A i \in 1..Len(reports) :
     /\ ReportIssues(i) # <<>> => ~reports[i].overall_status
     /\ ReportIssues(i) = <<>> => reports[i].overall_status

\* C2 is broken: the first report was returned with no issue and status true,
\* the second call found the output file changed, and the first report's
\* issues list now holds the second call's issues.
C2_Witness ==
  /\ Len(reports) = 2
  /\ reports[1].overall_status
  /\ observed[1].marks.issues[7] = 0
  /\ ReportIssues(1) # <<>>

\* the per-page markup documents of an archive: its members OEBPS/pageNNN.xhtml
IsPageDoc(name) == StartsWith(name, <<"OEBPS/", "page">>) /\ EndsWith(name, ".xhtml")
PageDocs(e) == SelectSeq(Namelist(e), IsPageDoc)

\* a readable source of one page or more, each with text and without images
TextOnlySource(f) ==
  /\ PdfOpens(f)
  /\ Len(f.pages) >= 1
  /\ \A i \in 1..Len(f.pages) : f.pages[i].textlen > 0 /\ f.pages[i].images = <<>>

\* C3: when convert() with validation has run on a readable source of N >= 1
\* pages that all have text and no image, the archive it wrote holds exactly
\* N page documents and the report it got has overall_status true.
C3_EndToEndFidelity ==
  (conv.status = "ok" /\ conv.validated /\ TextOnlySource(pdf)) =>
     /\ Len(PageDocs(conv.wrote)) = Len(pdf.pages)
     /\ conv.report.overall_status

\* C3 is broken: such a run wrote its N page documents and the report says
\* that the page counts differ, with overall_status false.
C3_Witness ==
  /\ conv.status = "ok" /\ conv.validated /\ TextOnlySource(pdf)
  /\ Len(PageDocs(conv.wrote)) = Len(pdf.pages)
  /\ ~conv.report.overall_status
  /\ CountOf(conv.report.issues, {"Page count mismatch"}) = 1

\* C4: whenever validate() could read both files, its Page Count check added
\* an issue, and failed, exactly when the source's page count differs from
\* the number of page documents in the archive; other markup documents in
\* the archive do not count as pages.
C4_PageCountIssue ==
  \A i \in 1..Len(reports) :
     Readable(i) =>
       LET differ == Len(observed[i].pdf.pages) # Len(PageDocs(observed[i].epub))
       IN  /\ IssuesBy(i, 3) # <<>> <=> differ
           /\ ~reports[i].validation_checks[3].passed <=> differ

\* C4 is broken: the archive holds as many page documents as the source has
\* pages, plus the navigation document, and the check added an issue.
C4_Witness ==
  \E i \in 1..Len(reports) :
     /\ Readable(i)
     /\ Len(observed[i].pdf.pages) = Len(PageDocs(observed[i].epub))
     /\ InNamelist(observed[i].epub, NavName)
     /\ CountOf(IssuesBy(i, 3), {"Page count mismatch"}) = 1
     /\ ~reports[i].validation_checks[3].passed

\* C5: every archive a generator (EPUBGeneratorV2 or EPUBGenerator) has
\* written starts with the entry 'mimetype', stored without compression,
\* holding exactly the bytes application/epub+zip, and has no other entry of
\* that name, whatever images and pages the package tree held and in
\* whatever order the walk met them.
C5_MarkerFirstStored ==
  /\ generated.by # "none" => epub.kind = "zip"
  /\ epub.kind = "zip" =>
       /\ Len(epub.entries) >= 1
       /\ epub.entries[1].name = MimetypeName
       /\ epub.entries[1].compress = ZIP_STORED
       /\ epub.entries[1].data = BytesData(MIMETYPE)
       /\ \A i \in 2..Len(epub.entries) : epub.entries[i].name # MimetypeName

\* C5 happens: an archive with an image member, written from a walk that met
\* the OEBPS directory before the marker's siblings (META-INF comes last)
C5_Witness ==
  /\ generated.by = "v1"
  /\ epub.kind = "zip"
  /\ \E i \in 2..Len(epub.entries) : StartsWith(epub.entries[i].name, <<"OEBPS/", "images/">>)
  /\ epub.entries[Len(epub.entries)].name = ContainerName
  /\ epub.entries[1].name = MimetypeName

\* C6: in every archive generated from pages numbered 1..N (N >= 1), the
\* package document's spine has exactly N itemrefs, the n-th one referring
\* to page n, and each resolves to exactly one manifest item, whose href is
\* the page document of page n, which the archive holds.
C6_SpineInPageOrder ==
  (generated.by # "none" /\ Len(generated.pages) >= 1) =>
     LET opf == ReadEntry(epub, OpfName)
         N == Len(generated.pages)
     IN  /\ Len(opf.spine) = N
         /\ \A n \in 1..N :
              /\ opf.spine[n].idref = PageId(n)
              /\ \E k \in 1..Len(opf.manifest) :
                   /\ opf.manifest[k].id = opf.spine[n].idref
                   /\ opf.manifest[k].href = PageHref(n)
                   /\ \A j \in 1..Len(opf.manifest) :
                        opf.manifest[j].id = opf.spine[n].idref => j = k
              /\ \A item \in opf.image_items : item.id # opf.spine[n].idref
              /\ InNamelist(epub, PageName(n))

\* C6 happens: a two-page archive of EPUBGeneratorV2 whose spine is page1, page2
C6_Witness ==
  /\ generated.by = "v2"
  /\ Len(generated.pages) = 2
  /\ epub.kind = "zip"
  /\ [n \in 1..2 |-> ReadEntry(epub, OpfName).spine[n].idref] = <<PageId(1), PageId(2)>>

\* the marker issues the validity check of the i-th call appended
MarkerIssues(i) == CountOf(IssuesBy(i, 6), {"Invalid mimetype"})

\* whether the i-th call found an archive with a marker file
HasMarker(i) == EpubOpens(observed[i].epub) /\ InNamelist(observed[i].epub, MimetypeName)

\* C7: whenever validate() found an archive with a marker file, its validity
\* check added a marker issue, and overall_status is false, if the marker's
\* content differs in any way from application/epub+zip (truncated, or with
\* leading or trailing whitespace), and added none if it is exactly that.
C7_MarkerExact ==
  \A i \in 1..Len(reports) :
     HasMarker(i) =>
       LET content == ReadEntry(observed[i].epub, MimetypeName).bytes
       IN  /\ content # MIMETYPE => (MarkerIssues(i) >= 1 /\ ~reports[i].overall_status)
           /\ content = MIMETYPE => MarkerIssues(i) = 0

\* C7 is broken: the marker holds the required string with whitespace around
\* it, the validity check passed without an issue and overall_status is true.
C7_Witness ==
  \E i \in 1..Len(reports) :
     /\ HasMarker(i)
     /\ ReadEntry(observed[i].epub, MimetypeName).bytes \in
           {MIMETYPE \o <<"\n">>, <<" ">> \o MIMETYPE}
     /\ IssuesBy(i, 6) = <<>>
     /\ reports[i].validation_checks[6].passed
     /\ reports[i].overall_status

\* C8: whenever validate() could read both files, with s the images of the
\* source and o the non-reference images of the archive, its image check
\* added exactly one issue, no warning and failed if s > 0 and o = 0; added
\* exactly one warning, no issue and passed if s > 0 and 0 < o < s; and added
\* nothing and passed otherwise.
C8_ImageCheck ==
  \A i \in 1..Len(reports) :
     Readable(i) =>
       LET s == PdfImageCount(observed[i].pdf)
           o == Len(EpubImages(observed[i].epub))
           issues == Len(IssuesBy(i, 4))
           warnings == Len(WarningsBy(i, 4))
           passed == reports[i].validation_checks[4].passed
       IN  IF s > 0 /\ o = 0 THEN issues = 1 /\ warnings = 0 /\ ~passed
           ELSE IF s > 0 /\ o < s THEN issues = 0 /\ warnings = 1 /\ passed
           ELSE issues = 0 /\ warnings = 0 /\ passed

\* C8 happens: a first call found some of the source's images in the archive
\* and warned; the second found none of them left and added the issue.
C8_Witness ==
  /\ Len(reports) = 2
  /\ Readable(1) /\ Readable(2)
  /\ PdfImageCount(observed[1].pdf) > Len(EpubImages(observed[1].epub))
  /\ Len(EpubImages(observed[1].epub)) > 0
  /\ CountOf(WarningsBy(1, 4), {"Some images may be missing"}) = 1
  /\ Len(EpubImages(observed[2].epub)) = 0
  /\ CountOf(IssuesBy(2, 4), {"Images not preserved in EPUB"}) = 1

\* C9: the text check of every validate() call added no issue and passed,
\* also when a file could not be read; when both could, with s the
\* characters of the source and o those of the archive's page documents, it
\* added exactly one warning if s > 0 and o is 0 or below 80% of s, and no
\* warning if o is at least 80% of s (5 * o >= 4 * s).
C9_TextCheck ==
  \A i \in 1..Len(reports) :
     /\ IssuesBy(i, 5) = <<>>
     /\ reports[i].validation_checks[5].passed
     /\ Readable(i) =>
          LET s == PdfTextChars(observed[i].pdf)
              o == EpubTextChars(observed[i].epub)
          IN  IF s > 0 /\ (o = 0 \/ 5 * o < 4 * s)
              THEN Len(WarningsBy(i, 5)) = 1
              ELSE WarningsBy(i, 5) = <<>>

\* C9 happens: a call found exactly 80% of the source's 5 characters in the
\* archive's page documents and did not warn.
C9_Witness ==
  \E i \in 1..Len(reports) :
     /\ Readable(i)
     /\ PdfTextChars(observed[i].pdf) = 5
     /\ EpubTextChars(observed[i].epub) = 4
     /\ WarningsBy(i, 5) = <<>>
     /\ reports[i].validation_checks[5].passed

\* the required files the archive of the i-th call lacks
MissingFiles(i) ==
  {k \in 1..Len(RequiredFiles) : ~InNamelist(observed[i].epub, RequiredFiles[k])}

\* C10: whenever validate() could open the archive, its structure check
\* added one issue per required file the archive lacks, added an issue if
\* the archive holds no page document (whatever other markup documents it
\* holds), and added nothing if the three files and a page document are there.
C10_StructureCheck ==
  \A i \in 1..Len(reports) :
     EpubOpens(observed[i].epub) =>
       /\ CountOf(IssuesBy(i, 2), {"Missing required EPUB file"}) = Cardinality(MissingFiles(i))
       /\ PageDocs(observed[i].epub) = <<>> =>
            CountOf(IssuesBy(i, 2), {"No XHTML page files found in EPUB"}) >= 1
       /\ (MissingFiles(i) = {} /\ PageDocs(observed[i].epub) # <<>>) => IssuesBy(i, 2) = <<>>

\* C10 is broken: the archive holds the navigation document and no page
\* document, and the structure check passed without an issue.
C10_Witness ==
  \E i \in 1..Len(reports) :
     /\ EpubOpens(observed[i].epub)
     /\ PageDocs(observed[i].epub) = <<>>
     /\ InNamelist(observed[i].epub, NavName)
     /\ IssuesBy(i, 2) = <<>>
     /\ reports[i].validation_checks[2].passed

\* ------------------------------------------- validate(), step by step
\* The environment may change the files between two steps of one validate()
\* call. The steps are: the exists() tests of _check_files_exist, its two
\* stat() calls, each of the other five checks (whose file accesses all lie
\* inside its try block), and the return.

\* the source file is deleted
EnvDeleteSource ==
  /\ env < MaxEnv
  /\ PdfExists(pdf)
  /\ env' = env + 1
  /\ pdf' = PdfMissing
  /\ UNCHANGED <<epub, validator, reports, observed, call>>
  /\ UNCHANGED pipeVars

\* check k of validate(), k = 2..6
CheckAt(k, v, f, e) ==
  CASE k = 2 -> CheckEpubStructure(v, f, e)
    [] k = 3 -> CheckPageCount(v, f, e)
    [] k = 4 -> CheckImagesPresent(v, f, e)
    [] k = 5 -> CheckTextContent(v, f, e)
    [] k = 6 -> CheckEpubValidity(v, f, e)

\* whether check k takes one of its except clauses on these files
HitError(k, f, e) ==
  CASE k = 2 -> ~EpubOpens(e)
    [] k \in {3, 4, 5} -> ~PdfOpens(f) \/ ~EpubOpens(e)
    [] k = 6 -> \/ ~EpubOpens(e)
                \/ ~InNamelist(e, MimetypeName)
                \/ InvalidXml(e, Namelist(e)) # <<>>

\* validate() up to the two exists() tests of _check_files_exist (lines 26-76)
ValidateBegin ==
  /\ validator.exists
  /\ call.pc \in {"idle", "raised"}
  /\ call.n < MaxValidate
  /\ \E c \in {CheckFilesExist(validator, pdf, epub)} :
        /\ validator' = [validator EXCEPT !.issues = c.issues, !.warnings = c.warnings]
        /\ call' = [pc |-> "stat", n |-> call.n + 1,
                    checks |-> <<c.check>>, hit |-> <<FALSE>>,
                    marks |-> [issues |-> <<Len(validator.issues), Len(c.issues)>>,
                               warnings |-> <<Len(validator.warnings), Len(c.warnings)>>]]
  /\ UNCHANGED <<reports, observed, env, pdf, epub>>
  /\ UNCHANGED pipeVars

\* lines 78-80: when both tests succeeded, stat() of both paths, outside any
\* try block; a path that is gone by now raises FileNotFoundError, which
\* leaves validate()
ValidateStat ==
  /\ call.pc = "stat"
  /\ call' = IF call.checks[1].passed /\ ~(PdfExists(pdf) /\ EpubExists(epub))
             THEN [call EXCEPT !.pc = "raised", !.hit = <<TRUE>>]
             ELSE [call EXCEPT !.pc = "check"]
  /\ UNCHANGED <<validator, reports, observed, env, pdf, epub>>
  /\ UNCHANGED pipeVars

\* the next of the checks 2..6, on the files as they are now
ValidateCheck ==
  /\ call.pc = "check"
  /\ \E k \in {Len(call.checks) + 1} :
     \E c \in {CheckAt(k, validator, pdf, epub)} :
        /\ validator' = [validator EXCEPT !.issues = c.issues, !.warnings = c.warnings]
        /\ call' = [call EXCEPT
                      !.pc = IF k = 6 THEN "return" ELSE "check",
                      !.checks = Append(@, c.check),
                      !.hit = Append(@, HitError(k, pdf, epub)),
                      !.marks = [issues |-> Append(@.issues, Len(c.issues)),
                                 warnings |-> Append(@.warnings, Len(c.warnings))]]
  /\ UNCHANGED <<reports, observed, env, pdf, epub>>
  /\ UNCHANGED pipeVars

\* lines 54-58: the report is completed and returned; observed keeps the
\* files as they are at the return
ValidateReturn ==
  /\ call.pc = "return"
  /\ reports' = Append(reports, [validation_checks |-> call.checks,
                                 overall_status |-> Len(validator.issues) = 0])
  /\ observed' = Append(observed, [pdf |-> pdf, epub |-> epub, marks |-> call.marks])
  /\ call' = [call EXCEPT !.pc = "idle"]
  /\ UNCHANGED <<validator, env, pdf, epub>>
  /\ UNCHANGED pipeVars

NextR ==
  \/ CreateValidator
  \/ ValidateBegin
  \/ ValidateStat
  \/ ValidateCheck
  \/ ValidateReturn
  \/ EnvDelete
  \/ EnvDeleteSource
  \/ EnvGarble
  \/ EnvRemoveEntry
  \/ EnvCorruptXml

\* A client's validator whose validate() calls run step by step while the
\* environment may change either file.
SpecR == InitV /\ [][NextR]_vars

\* C11: no validate() call ends by raising, whatever is at the two paths and
\* whenever the environment changes them, also between two steps of the
\* call; and every check of a call that hit an internal error has added at
\* least one issue or warning.
C11_NeverRaises ==
  /\ call.pc # "raised"
  /\ \A k \in 1..Len(call.hit) :
       call.hit[k] =>
         \/ call.marks.issues[k + 1] > call.marks.issues[k]
         \/ call.marks.warnings[k + 1] > call.marks.warnings[k]

\* C11 is broken: both files were there at the exists() tests, one was
\* removed before the stat() calls, and validate() raised: no report was
\* returned and the check added no issue or warning.
C11_Witness ==
  /\ call.pc = "raised"
  /\ call.checks[1].passed
  /\ ~(PdfExists(pdf) /\ EpubExists(epub))
  /\ call.marks.issues[2] = call.marks.issues[1]
  /\ call.marks.warnings[2] = call.marks.warnings[1]
  /\ Len(reports) < call.n

\* --------------------------------------------------- the extractor alone
\* pages of a source document the extractor alone is run on
MaxPagesX == 2

\* A page with the text run of PageT and one image per element of mask, the
\* i-th at its own place, decodable exactly when mask[i]; the reference
\* snapshot renders exactly when renderable.
PageX(mask, renderable) ==
  [width |-> 20000, height |-> 30000,
   chars |-> PageT.chars,
   images |-> [i \in 1..Len(mask) |->
                 Img(1000 * i, 1000 * i + 800, 5000 + 100 * i, 15000, mask[i])],
   renderable |-> renderable,
   textlen |-> 5]

PagesX == {PageX(mask, r) : mask \in SeqsUpTo(BOOLEAN, MaxImagesPerPage), r \in BOOLEAN}

InitX ==
  /\ pdf \in {PdfMissing, PdfGarbage} \cup {PdfDoc(p) : p \in SeqsUpTo(PagesX, MaxPagesX)}
  /\ epub = EpubMissing
  /\ workimgs = {}
  /\ extracted = NotExtracted
  /\ scratch = [v1 |-> NoScratch, v2 |-> NoScratch]
  /\ generated = NotGenerated
  /\ lastgen = NoGenerate
  /\ conv = NotConverted
  /\ validator = NoValidator
  /\ reports = <<>>
  /\ observed = <<>>
  /\ env = 0
  /\ call = NoCall
  /\ textlog = <<>>
  /\ gens = NoGens

NextX == Extract

\* extract_all() on sources whose images fail in every combination
SpecX == InitX /\ [][NextX]_vars

\* the positions in page.images of the images that do not fail, in order
GoodIndices(imgs) == SelectSeq([i \in 1..Len(imgs) |-> i], LAMBDA i : imgs[i].decodable)

\* C12: when extract_all() has run on a readable source, whichever of its
\* images fail, it has returned normally with every page; each page has
\* exactly one ImageElement per non-failing image, in source order, named
\* with that image's own index and placed at that image's box, and the page's
\* text line is there.
C12_ImageFailureIsolated ==
  /\ (PdfOpens(pdf) /\ extracted.status # "none") =>
        (extracted.status = "ok" /\ Len(extracted.pages) = Len(pdf.pages))
  /\ extracted.status = "ok" =>
       \A p \in 1..Len(extracted.pages) :
          LET imgs == pdf.pages[p].images
              good == GoodIndices(imgs)
              els == extracted.pages[p].image_elements
          IN  /\ Len(els) = Len(good)
              /\ \A j \in 1..Len(els) :
                   /\ els[j].image_path = ImgFilename(p, good[j] - 1)
                   /\ els[j].x0 = imgs[good[j]].x0
                   /\ els[j].x1 = imgs[good[j]].x1
              /\ Len(extracted.pages[p].text_elements) = 1
              /\ extracted.pages[p].text_elements[1].text = <<"H", "e", "l", "l", "o">>

\* C12 happens: the first image of page 1 failed, its second one was
\* extracted under index 1, and page 2 was extracted with its image
C12_Witness ==
  /\ extracted.status = "ok"
  /\ Len(extracted.pages) = 2
  /\ Len(pdf.pages[1].images) = 2
  /\ ~pdf.pages[1].images[1].decodable
  /\ Len(extracted.pages[1].image_elements) = 1
  /\ extracted.pages[1].image_elements[1].image_path = ImgFilename(1, 1)
  /\ Len(extracted.pages[2].image_elements) = 1

\* a 3-page source whose page 2 has a single image, which fails to decode
FailingImageOnPage2(f) ==
  /\ PdfOpens(f)
  /\ Len(f.pages) = 3
  /\ Len(f.pages[2].images) = 1
  /\ ~f.pages[2].images[1].decodable

\* C13: when convert() has run on a 3-page source whose page 2 has a single
\* image that fails to decode, it has succeeded, page 2 has no image
\* element, and with validation the report has overall_status true, its
\* image check having passed with a warning and without an issue.
C13_FailingImagePipeline ==
  (FailingImageOnPage2(pdf) /\ conv.status # "none") =>
     /\ conv.status = "ok"
     /\ generated.pages[2].image_elements = <<>>
     /\ conv.validated =>
          /\ conv.report.overall_status
          /\ conv.report.validation_checks[4].passed
          /\ CountOf(conv.report.issues, {"Images not preserved in EPUB"}) = 0

\* C13 is broken: convert() succeeded on such a source, page 2 has no image
\* element, and the report has overall_status false, with the page-count
\* issue (and, no image being left in the archive, the image issue).
C13_Witness ==
  /\ FailingImageOnPage2(pdf)
  /\ conv.status = "ok" /\ conv.validated
  /\ generated.pages[2].image_elements = <<>>
  /\ ~conv.report.overall_status
  /\ CountOf(conv.report.issues, {"Page count mismatch"}) = 1
  /\ CountOf(conv.report.issues, {"Images not preserved in EPUB"}) = 1

\* C14: between generator runs the scratch directory of neither generator
\* exists: generate() removed it, whether it returned or raised.
C14_ScratchRemoved ==
  /\ ~scratch.v1.exists
  /\ ~scratch.v2.exists

\* generate() of EPUBGeneratorV2 has raised on an empty page sequence, after
\* the image copy and the container document
C14_Witness ==
  /\ extracted.status = "ok"
  /\ extracted.pages = <<>>
  /\ scratch.v2.exists
  /\ HasFile(scratch.v2.files, ContainerName)


\* C15: after a generate() call that raised, whatever the step, nothing that
\* opens as an archive is at the output path.
C15_NoPartialArchive ==
  lastgen.raised => epub.kind # "zip"

\* generate() has raised while _package_epub was writing entries after the
\* marker
C15_Witness ==
  /\ lastgen = [by |-> "v2", raised |-> TRUE]
  /\ extracted.pages # <<>>
  /\ epub.kind = "zip"
  /\ Len(epub.entries) = 2
  /\ epub.entries[1].name = MimetypeName


\* C16: a generate() call of either generator on an empty page sequence
\* raises, and no archive is at the output path after it.
C16_EmptyPagesFatal ==
  (pdf = PdfDoc(<<>>) /\ lastgen.by # "none") =>
     /\ lastgen.raised
     /\ epub.kind # "zip"

\* the legacy generator has been run on the empty page sequence
C16_Witness ==
  /\ pdf = PdfDoc(<<>>)
  /\ extracted.status = "ok"
  /\ extracted.pages = <<>>
  /\ lastgen.by = "v1"


\* ---------------------------------------------------- the generators alone
\* pages of a source document the generators are run on
MaxPagesG == 2

\* A page with the given glyphs and one image per element of mask, placed and
\* decodable as on PageX.
PageG(chars, mask) ==
  [width |-> 20000, height |-> 30000,
   chars |-> chars,
   images |-> PageX(mask, TRUE).images,
   renderable |-> TRUE,
   textlen |-> Len(chars)]

\* the glyphs of two lines, "Hi" and "ok"
TwoLines == PageI.chars \o Tail(PageF.chars)

PagesG ==
  { PageG(PageT.chars, <<>>),
    PageG(<<>>, <<TRUE>>),
    PageG(TwoLines, <<TRUE, TRUE>>),
    PageG(TwoLines, <<FALSE, TRUE>>) }

\* What <working_dir>/extracted/images holds when a conversion starts: the
\* directory is created with exist_ok and never emptied, so nothing, or the
\* files an earlier extraction of a one-page source left there.
EarlierFiles == {{}} \cup {ExtractAll(PdfDoc(<<p>>)).files : p \in PagesG}

InitG ==
  /\ pdf \in {PdfDoc(p) : p \in SeqsUpTo(PagesG, MaxPagesG)}
  /\ epub = EpubMissing
  /\ workimgs \in EarlierFiles
  /\ extracted = NotExtracted
  /\ scratch = [v1 |-> NoScratch, v2 |-> NoScratch]
  /\ generated = NotGenerated
  /\ lastgen = NoGenerate
  /\ conv = NotConverted
  /\ validator = NoValidator
  /\ reports = <<>>
  /\ observed = <<>>
  /\ env = 0
  /\ call = NoCall
  /\ textlog = <<>>
  /\ gens = NoGens

NextG ==
  \/ Extract
  \/ \E order \in ListingOrders : RunGeneratorV2(order)
  \/ \E order \in ListingOrders : RunGeneratorLegacy(order)
  \/ \E validate \in BOOLEAN, order \in ListingOrders : Convert(validate, order)

\* extract_all(), either generator and convert() on pages with several images
\* and lines, in a working directory an earlier conversion may have used
SpecG == InitG /\ [][NextG]_vars

\* the positioned children of the page document written for page i
BodyOf(i) == ReadEntry(epub, PageName(generated.pages[i].page_num)).body

\* C17: in every page document of a generated archive the positioned
\* children are one image container per ImageElement of the page, in their
\* order, then one text container per TextElement, in their order, and
\* nothing else.
C17_ChildrenInOrder ==
  generated.by # "none" =>
     \A i \in 1..Len(generated.pages) :
        LET imgs == generated.pages[i].image_elements
            txts == generated.pages[i].text_elements
            body == BodyOf(i)
        IN  /\ Len(body) = Len(imgs) + Len(txts)
            /\ \A j \in 1..Len(imgs) :
                  /\ body[j].src = <<"images/">> \o imgs[j].image_path
                  /\ body[j].text = <<>>
            /\ \A j \in 1..Len(txts) :
                  /\ body[Len(imgs) + j].text = txts[j].text
                  /\ body[Len(imgs) + j].src = <<>>

\* the V2 generator has written a page document with two image containers
\* and two text containers
C17_Witness ==
  /\ generated.by = "v2"
  /\ \E i \in 1..Len(generated.pages) :
        /\ Len(generated.pages[i].image_elements) = 2
        /\ Len(generated.pages[i].text_elements) = 2
        /\ generated.pages[i].image_elements[1] # generated.pages[i].image_elements[2]
        /\ generated.pages[i].text_elements[1].text # generated.pages[i].text_elements[2].text
        /\ Len(BodyOf(i)) = 4


\* the elements of a sequence
Range(s) == {s[i] : i \in 1..Len(s)}

\* the coordinate flip of the vertical extent y on a page of height H
Flip(H, y) == <<H - y[2], H - y[1]>>

\* the element e has the horizontal extent (x0, x1) and the flipped vertical
\* extent (y0, y1) of its source, and flipping it again gives (y0, y1) back
Flipped(e, H, x0, x1, y0, y1) ==
  /\ e.y0 = H - y1
  /\ e.y1 = H - y0
  /\ <<e.x0, e.x1>> = <<x0, x1>>
  /\ Flip(H, <<e.y0, e.y1>>) = <<y0, y1>>

\* the text element e is the line of page p that runs from glyph a to glyph b
LineFromTo(e, p, a, b) ==
  /\ Round1(a.y0) = Round1(b.y0)
  /\ \A c \in Range(p.chars) :
        Round1(c.y0) = Round1(a.y0) => a.x0 <= c.x0 /\ c.x0 <= b.x0
  /\ Head(e.text) = a.text
  /\ e.text[Len(e.text)] = b.text

\* C18: every ImageElement has the horizontal extent and the flipped vertical
\* extent of its source image, every TextElement those of its source line
\* (from its first glyph to its last), and the flip applied twice is the
\* identity.
C18_CoordinateFlip ==
  extracted.status = "ok" =>
     \A i \in 1..Len(extracted.pages) :
        LET p == pdf.pages[i]
            pc == extracted.pages[i]
            good == GoodIndices(p.images)
        IN  /\ Len(pc.image_elements) = Len(good)
            /\ \A j \in 1..Len(good) :
                  LET img == p.images[good[j]]
                  IN  Flipped(pc.image_elements[j], p.height,
                              img.x0, img.x1, img.y0, img.y1)
            /\ \A j \in 1..Len(pc.text_elements) :
                  \E a \in Range(p.chars), b \in Range(p.chars) :
                     /\ LineFromTo(pc.text_elements[j], p, a, b)
                     /\ Flipped(pc.text_elements[j], p.height,
                                a.x0, b.x1, a.y0, b.y1)

\* a page has been extracted with an image and with a line whose glyphs
\* differ in height
C18_Witness ==
  /\ extracted.status = "ok"
  /\ \E i \in 1..Len(extracted.pages) :
        /\ extracted.pages[i].image_elements # <<>>
        /\ extracted.pages[i].image_elements[1].y0 = 15000
        /\ extracted.pages[i].image_elements[1].y1
             = 30000 - pdf.pages[i].images[GoodIndices(pdf.pages[i].images)[1]].y0
        /\ \E j \in 1..Len(extracted.pages[i].text_elements) :
              /\ extracted.pages[i].text_elements[j].text = <<"H", "i">>
              /\ extracted.pages[i].text_elements[j].y0 = 30000 - 21500
              /\ extracted.pages[i].text_elements[j].y1 = 30000 - 20000


\* the image files of the archive's images directory
ArchiveImages(e) ==
  {n \in Range(Namelist(e)) : StartsWith(n, <<"OEBPS/", "images/">>)}

\* the number of items of the package document of archive e, image items
\* included, whose href is h
ItemsFor(e, h) ==
  LET opf == ReadEntry(e, OpfName)
  IN  Cardinality({k \in 1..Len(opf.manifest) : opf.manifest[k].href = h})
      + Cardinality({it \in opf.image_items : it.href = h})

\* C19: in every generated archive the manifest has exactly one item for the
\* stylesheet, one for each page document and one for each file of the
\* images directory, and every image item points at a file of the archive.
C19_ManifestComplete ==
  generated.by # "none" =>
     /\ ItemsFor(epub, Tail(CssName)) = 1
     /\ \A n \in Range(PageDocs(epub)) : ItemsFor(epub, Tail(n)) = 1
     /\ \A n \in ArchiveImages(epub) : ItemsFor(epub, Tail(n)) = 1
     /\ \A it \in ReadEntry(epub, OpfName).image_items :
           <<"OEBPS/">> \o it.href \in ArchiveImages(epub)

\* the V2 generator has written an archive whose images directory holds the
\* image of the page and a file no item of the manifest names
C19_Witness ==
  /\ generated.by = "v2"
  /\ ReadEntry(epub, OpfName).image_items # {}
  /\ \E n \in ArchiveImages(epub) : ItemsFor(epub, Tail(n)) = 1
  /\ \E n \in ArchiveImages(epub) : ItemsFor(epub, Tail(n)) = 0


\* C20: extract_all() on a readable source of N pages returns N page
\* contents numbered 1..N in source order and total_pages = N, whichever
\* images and reference snapshots fail.
C20_PagesNumbered ==
  (PdfOpens(pdf) /\ extracted.status # "none") =>
     /\ extracted.status = "ok"
     /\ Len(extracted.pages) = Len(pdf.pages)
     /\ extracted.metadata.total_pages = Len(pdf.pages)
     /\ \A i \in 1..Len(pdf.pages) :
           /\ extracted.pages[i].page_num = i
           /\ Len(extracted.pages[i].image_elements)
                = Len(GoodIndices(pdf.pages[i].images))
           /\ (extracted.pages[i].background_image_path = None)
                = ~pdf.pages[i].renderable

\* two pages have been extracted: an image of the first failed, the
\* snapshot of the second failed, and the second page has an image more
C20_Witness ==
  /\ extracted.status = "ok"
  /\ Len(pdf.pages) = 2
  /\ \E k \in 1..Len(pdf.pages[1].images) : ~pdf.pages[1].images[k].decodable
  /\ ~pdf.pages[2].renderable
  /\ Len(extracted.pages) = 2
  /\ extracted.pages[2].page_num = 2
  /\ Len(extracted.pages[2].image_elements) > Len(extracted.pages[1].image_elements)


\* ------------------------------------------------ text extraction alone
\* glyphs on a page, and _extract_text calls on it
MaxGlyphs == 2
MaxTextCalls == 2

\* A glyph "a" or " " at (x0, y0), small (5 x 10 pt) or big (20 x 20 pt).
GlyphT(t, x0, y0, big) ==
  Glyph(t, x0, x0 + (IF big THEN 2000 ELSE 500),
        y0, y0 + (IF big THEN 2000 ELSE 1000), Helvetica)

\* Two left edges; three y0 of which 10.00 and 10.04 round to the same tenth.
GlyphsT ==
  {GlyphT(t, x0, y0, big) :
     t \in {"a", " "}, x0 \in {1000, 2000}, y0 \in {1000, 1004, 5000}, big \in BOOLEAN}

PageOfGlyphs(chars) ==
  [width |-> 20000, height |-> 30000,
   chars |-> chars,
   images |-> << >>,
   renderable |-> TRUE,
   textlen |-> Len(chars)]

InitT ==
  /\ pdf \in {PdfDoc(<<PageOfGlyphs(c)>>) : c \in SeqsUpTo(GlyphsT, MaxGlyphs)}
  /\ epub = EpubMissing
  /\ workimgs = {}
  /\ extracted = NotExtracted
  /\ scratch = [v1 |-> NoScratch, v2 |-> NoScratch]
  /\ generated = NotGenerated
  /\ lastgen = NoGenerate
  /\ conv = NotConverted
  /\ validator = NoValidator
  /\ reports = <<>>
  /\ observed = <<>>
  /\ env = 0
  /\ call = NoCall
  /\ textlog = <<>>
  /\ gens = NoGens

\* self._extract_text(page, 1), called on the one page of the source
ExtractTextCall ==
  /\ Len(textlog) < MaxTextCalls
  /\ textlog' = Append(textlog, ExtractText(pdf.pages[1], 1))
  /\ UNCHANGED <<pdf, epub, workimgs, extracted, scratch, generated, lastgen, conv, gens>>
  /\ UNCHANGED valVars

NextT == ExtractTextCall

\* _extract_text, called repeatedly on a page of any glyphs
SpecT == InitT /\ [][NextT]_vars

MaxCalls == 2

\* What a client hands to generate(): what extract_all() returned for source
\* f, and the images directory, which held the files `earlier` before.
GenInput(f, earlier) ==
  Let(ExtractAll(f), LAMBDA x :
      [pages |-> x.pages, metadata |-> x.metadata, files |-> earlier \cup x.files])

\* an empty page sequence beside an image of an earlier extraction, a page
\* of text, and a page with an image followed by a page of text
InputsC ==
  { GenInput(PdfDoc(<<>>), ExtractAll(PdfDoc(<<PageI>>)).files),
    GenInput(PdfDoc(<<PageT>>), {}),
    GenInput(PdfDoc(<<PageI, PageT>>), {}) }

Other(g) == CHOOSE h \in Generators : h # g

\* the instance is between its construction and its first generate(), or
\* inside generate()
Active(g) == gens[g].pc \in {"constructed", "built"}

\* Instance g starts a run: it and the other instance's run are marked as
\* overlapping when the other one is active.
StartRun(g, pc, input) ==
  [gens EXCEPT ![g] = [@ EXCEPT !.pc = pc, !.input = input,
                                !.clean = ~Active(Other(g))],
               ![Other(g)] = [@ EXCEPT !.clean = @ /\ ~Active(Other(g))]]

\* generate() of instance g ends: its result is appended
EndRun(gs, g, raised, archive) ==
  [gs EXCEPT ![g] = [@ EXCEPT !.pc = "idle",
                              !.results = Append(@, [input |-> gs[g].input,
                                                     clean |-> gs[g].clean,
                                                     raised |-> raised,
                                                     archive |-> archive])]]

\* g = EPUBGeneratorV2(output_path): _setup_structure removes the scratch
\* directory, whoever filled it, and re-creates it with the marker
GenConstruct(g) ==
  /\ gens[g].pc = "none"
  /\ scratch' = [scratch EXCEPT !.v2 = Scratch(SetupStructure)]
  /\ gens' = StartRun(g, "constructed", NoInput)
  /\ UNCHANGED <<pdf, epub, workimgs, extracted, generated, lastgen, conv, textlog>>
  /\ UNCHANGED valVars

\* g.generate(pages, metadata, images_dir) up to _create_stylesheet: the
\* files are written into the scratch directory as it is. Without the
\* directory the first write raises; an empty page sequence raises in
\* _create_package_opf, after the images and container.xml.
GenBuild(g, input) ==
  /\ gens[g].pc \in {"constructed", "idle"}
  /\ Len(gens[g].results) < MaxCalls
  /\ \E gs \in {IF gens[g].pc = "idle" THEN StartRun(g, "idle", input)
                ELSE [gens EXCEPT ![g] = [@ EXCEPT !.input = input]]} :
        IF ~scratch.v2.exists
        THEN /\ gens' = EndRun(gs, g, TRUE, EpubMissing)
             /\ scratch' = scratch
        ELSE \E t2 \in {CreateContainerXml(CopyImages(scratch.v2.files, input.files))} :
               IF input.pages = <<>>
               THEN /\ gens' = EndRun(gs, g, TRUE, EpubMissing)
                    /\ scratch' = [scratch EXCEPT !.v2 = Scratch(t2)]
               ELSE /\ gens' = [gs EXCEPT ![g] = [@ EXCEPT !.pc = "built"]]
                    /\ scratch' = [scratch EXCEPT !.v2 = Scratch(
                          CreateStylesheet(
                            CreatePageXhtmlFiles(
                              CreateNavXhtml(
                                CreateTocNcx(
                                  CreatePackageOpf(t2, input.pages, input.metadata),
                                  input.pages),
                                input.pages),
                              input.pages)))]
  /\ UNCHANGED <<pdf, epub, workimgs, extracted, generated, lastgen, conv, textlog>>
  /\ UNCHANGED valVars

\* _package_epub of instance g, which ends its generate(): the archive is
\* written from the scratch directory as it is and the directory is removed.
\* Without the directory (or its marker) the archive is created, reading the
\* marker raises, and the archive is closed empty.
GenPackage(g, order) ==
  /\ gens[g].pc = "built"
  /\ \E z \in {PackageEpub(IF scratch.v2.exists THEN scratch.v2.files ELSE <<>>, order)} :
        /\ gens' = EndRun(gens, g, z.raised, z.epub)
        /\ scratch' = IF z.raised THEN scratch ELSE [scratch EXCEPT !.v2 = NoScratch]
  /\ UNCHANGED <<pdf, epub, workimgs, extracted, generated, lastgen, conv, textlog>>
  /\ UNCHANGED valVars

\* no instance yet, no scratch directory; the source plays no part
InitC ==
  /\ pdf = PdfMissing
  /\ epub = EpubMissing
  /\ workimgs = {}
  /\ extracted = NotExtracted
  /\ scratch = [v1 |-> NoScratch, v2 |-> NoScratch]
  /\ generated = NotGenerated
  /\ lastgen = NoGenerate
  /\ conv = NotConverted
  /\ validator = NoValidator
  /\ reports = <<>>
  /\ observed = <<>>
  /\ env = 0
  /\ call = NoCall
  /\ textlog = <<>>
  /\ gens = NoGens

NextC ==
  \/ \E g \in Generators : GenConstruct(g)
  \/ \E g \in Generators, input \in InputsC : GenBuild(g, input)
  \/ \E g \in Generators, order \in ListingOrders : GenPackage(g, order)

\* two EPUBGeneratorV2 instances, their steps interleaved in any way
SpecC == InitC /\ [][NextC]_vars


\* what a generator run alone on the scratch directory makes of an input
OwnRun(input) ==
  GenerateV2(input.pages, input.metadata, input.files, "fwd", EpubMissing)

\* the names in archive e that the run alone would not have written
ForeignNames(e, input) ==
  Range(Namelist(e)) \ Range(Namelist(OwnRun(input).epub))

\* the names the run alone would have written that archive e lacks
MissingNames(e, input) ==
  Range(Namelist(OwnRun(input).epub)) \ Range(Namelist(e))

\* C22: a run (construction and first generate()) that no other run
\* overlapped raised only on an empty page sequence, and otherwise wrote an
\* archive with exactly the entries the run makes alone.
C22_RunsApartOwnFiles ==
  \A g \in Generators :
     (gens[g].results # <<>> /\ gens[g].results[1].clean) =>
        LET r == gens[g].results[1]
        IN  /\ r.raised = (r.input.pages = <<>>)
            /\ ~r.raised =>
                  /\ r.archive.kind = "zip"
                  /\ Len(r.archive.entries) = Len(OwnRun(r.input).epub.entries)
                  /\ Range(r.archive.entries) = Range(OwnRun(r.input).epub.entries)

\* two overlapping runs have ended: one wrote an archive that holds a file
\* of the other run, the other one raised while packaging
C22_Witness ==
  \E g \in Generators :
     /\ gens[g].results # <<>> /\ gens[Other(g)].results # <<>>
     /\ ~gens[g].results[1].clean
     /\ ~gens[g].results[1].raised
     /\ ForeignNames(gens[g].results[1].archive, gens[g].results[1].input) # {}
     /\ ~gens[Other(g)].results[1].clean
     /\ gens[Other(g)].results[1].input.pages # <<>>
     /\ gens[Other(g)].results[1].raised


\* the names of the check results of a report, in order
CheckNames(report) ==
  [k \in 1..Len(report.validation_checks) |-> report.validation_checks[k].name]

\* C23: every report validate() returned holds six check results, named
\* File Existence, EPUB Structure, Page Count, Image Preservation, Text
\* Content, EPUB Validity in that order.
C23_SixChecksInOrder ==
  \A i \in 1..Len(reports) :
     CheckNames(reports[i]) =
        <<"File Existence", "EPUB Structure", "Page Count",
          "Image Preservation", "Text Content", "EPUB Validity">>

\* a report whose first three checks failed still has the six results
C23_Witness ==
  \E i \in 1..Len(reports) :
     /\ Len(reports[i].validation_checks) = 6
     /\ \A k \in 1..3 : ~reports[i].validation_checks[k].passed
     /\ reports[i].validation_checks[4].name = "Image Preservation"


\* the glyphs of the page _extract_text is called on
CharsT == pdf.pages[1].chars

\* the positions in page.chars of the glyphs whose y0 rounds to k
BucketT(k) == {i \in 1..Len(CharsT) : Round1(CharsT[i].y0) = k}

\* the rounded y0 values whose glyphs' joined text is not all whitespace
KeptKeys ==
  {k \in {Round1(CharsT[i].y0) : i \in 1..Len(CharsT)} :
     \E i \in BucketT(k) : CharsT[i].text \notin Whitespace}

\* the j-th smallest kept key
KeptKey(j) == CHOOSE k \in KeptKeys : Cardinality({h \in KeptKeys : h < k}) = j - 1

\* text is the texts of the glyphs at the positions B, each taken once, in an
\* order of ascending x0
JoinedAscending(text, B) ==
  /\ Len(text) = Cardinality(B)
  /\ \E p \in [1..Len(text) -> B] :
        /\ \A a \in 1..Len(text), b \in 1..Len(text) :
              /\ (a # b => p[a] # p[b])
              /\ (a < b => CharsT[p[a]].x0 <= CharsT[p[b]].x0)
        /\ \A a \in 1..Len(text) : text[a] = CharsT[p[a]].text

\* C24: every _extract_text call returned one TextElement per rounded-y0
\* bucket whose text is not blank, and each element's text is its bucket's
\* glyph texts, each once, in ascending x0 order; the glyphs of blank buckets
\* are in no element.
C24_LineGrouping ==
  \A c \in 1..Len(textlog) :
     /\ Len(textlog[c]) = Cardinality(KeptKeys)
     /\ \A j \in 1..Len(textlog[c]) :
           JoinedAscending(textlog[c][j].text, BucketT(KeptKey(j)))

\* _extract_text has been called on two glyphs of one bucket (y0 10.04 and
\* 10.00) that come right-to-left in page.chars
C24_Witness ==
  /\ textlog # <<>>
  /\ Len(CharsT) = 2
  /\ CharsT[1].y0 = 1004 /\ CharsT[2].y0 = 1000
  /\ CharsT[1].x0 > CharsT[2].x0
  /\ Len(textlog[1]) = 1
  /\ textlog[1][1].text = <<CharsT[2].text, CharsT[1].text>>
  /\ CharsT[1].text # CharsT[2].text


MinOf(S) == CHOOSE m \in S : \A n \in S : m <= n

MaxOf(S) == CHOOSE m \in S : \A n \in S : n <= m

\* the box of e is the union of the boxes of the glyphs at the positions B:
\* the vertical bounds of e are flipped, so its y1 comes from the glyphs' y0
UnionBox(e, B) ==
  /\ e.x0 = MinOf({CharsT[i].x0 : i \in B})
  /\ e.x1 = MaxOf({CharsT[i].x1 : i \in B})
  /\ pdf.pages[1].height - e.y1 = MinOf({CharsT[i].y0 : i \in B})
  /\ pdf.pages[1].height - e.y0 = MaxOf({CharsT[i].y1 : i \in B})

\* C25: the box of every TextElement _extract_text returned is the union of
\* the boxes of its bucket's glyphs, and x1 >= x0 and y1 >= y0.
C25_BoxIsUnion ==
  \A c \in 1..Len(textlog) : \A j \in 1..Len(textlog[c]) :
     /\ UnionBox(textlog[c][j], BucketT(KeptKey(j)))
     /\ textlog[c][j].x1 >= textlog[c][j].x0
     /\ textlog[c][j].y1 >= textlog[c][j].y0

\* a line of a large glyph at x0 = 10 (x1 = 30, y1 = y0 + 20) followed by a
\* small one at x0 = 20 (x1 = 25, y1 = y0 + 10): the element ends at x1 = 25
C25_Witness ==
  /\ textlog # <<>>
  /\ Len(CharsT) = 2
  /\ Len(textlog[1]) = 1
  /\ \E i \in 1..2 : CharsT[i].x0 = 1000 /\ CharsT[i].x1 = 3000
  /\ \E i \in 1..2 : CharsT[i].x0 = 2000 /\ CharsT[i].x1 = 2500
  /\ textlog[1][1].x1 = 2500


\* the (page, position) pairs of the ImageElements extract_all() returned
ElementsAt ==
  {pj \in (1..MaxPagesX) \X (1..MaxImagesPerPage) :
     /\ pj[1] <= Len(extracted.pages)
     /\ pj[2] <= Len(extracted.pages[pj[1]].image_elements)}

PathAt(pj) == extracted.pages[pj[1]].image_elements[pj[2]].image_path

\* page numbers and image indexes on both sides of each padding width
WidePages == {1, 10, 11, 100, 999, 1000}
WideIndexes == {0, 1, 10, 11, 99, 100}

\* C26: after extract_all() no two ImageElements, of one page or of
\* different pages, have the same image_path, each path is the name built
\* from the element's page number and an image index of that page, and the
\* images directory holds one file per element beside the page snapshots;
\* the naming gives different names to different (page, index) pairs also
\* where the numbers outgrow their padding.
C26_ImagePathsDistinct ==
  /\ extracted.status = "ok" =>
       /\ \A a \in ElementsAt, b \in ElementsAt : PathAt(a) = PathAt(b) => a = b
       /\ \A a \in ElementsAt :
             \E k \in 1..Len(pdf.pages[a[1]].images) :
                PathAt(a) = <<"page", "_">> \o Fmt0d(a[1], 3) \o <<"_img_">>
                              \o Fmt0d(k - 1, 2) \o <<".png">>
       /\ Cardinality({n \in workimgs : ~Contains(n, "reference")})
            = Cardinality(ElementsAt)
  /\ Cardinality({ImgFilename(p, i) : p \in WidePages, i \in WideIndexes})
       = Cardinality(WidePages \X WideIndexes)

\* two pages with two extracted images each: four elements, four files
C26_Witness ==
  /\ extracted.status = "ok"
  /\ Len(extracted.pages) = 2
  /\ Len(extracted.pages[1].image_elements) = 2
  /\ Len(extracted.pages[2].image_elements) = 2
  /\ Cardinality({n \in workimgs : ~Contains(n, "reference")}) = 4


\* the archive names of the image_path values of the ImageElements of pages
ExtractedImageNames(pages) == {<<"OEBPS/", "images/">> \o n : n \in ImageFiles(pages)}

\* C27: the image files of an archive the V2 generator wrote, called by
\* convert() or by a client, are exactly the image_path values of the
\* ImageElements of the pages it was given, whatever an earlier conversion
\* left in the working directory.
C27_OnlyOwnImages ==
  generated.by = "v2" => ArchiveImages(epub) = ExtractedImageNames(generated.pages)

\* convert() has run in a working directory where an earlier conversion left
\* an image the present source does not have, and that image is in the archive
C27_Witness ==
  /\ conv.status = "ok"
  /\ generated.by = "v2"
  /\ epub = conv.wrote
  /\ ExtractedImageNames(generated.pages) # {}
  /\ \E n \in ArchiveImages(epub) : n \notin ExtractedImageNames(generated.pages)


\* C28: in the report of the first validate() call on a validator, a check
\* has passed = false exactly when it appended an issue, overall_status is
\* true exactly when all six checks passed, and a check that appended
\* warnings and no issue has passed = true.
C28_PassedIffIssue ==
  reports # <<>> =>
     /\ \A k \in 1..6 :
           /\ ~reports[1].validation_checks[k].passed <=> IssuesBy(1, k) # <<>>
           /\ (WarningsBy(1, k) # <<>> /\ IssuesBy(1, k) = <<>>)
                 => reports[1].validation_checks[k].passed
     /\ reports[1].overall_status
          <=> \A k \in 1..6 : reports[1].validation_checks[k].passed

\* a first report where the image check and the text check only warned and
\* passed while the validity check appended an issue and failed
C28_Witness ==
  /\ reports # <<>>
  /\ WarningsBy(1, 5) # <<>> /\ reports[1].validation_checks[5].passed
  /\ IssuesBy(1, 6) # <<>> /\ ~reports[1].validation_checks[6].passed
  /\ \A k \in 1..4 : reports[1].validation_checks[k].passed
  /\ ~reports[1].overall_status


\* the issues and the warnings the i-th validate() call appended
IssuesOfCall(i) ==
  SubSeq(validator.issues, observed[i].marks.issues[1] + 1, observed[i].marks.issues[7])
WarningsOfCall(i) ==
  SubSeq(validator.warnings, observed[i].marks.warnings[1] + 1, observed[i].marks.warnings[7])

\* two validate() calls on the instance found the same source and output files
SameFilesTwice ==
  /\ Len(reports) = 2
  /\ observed[1].pdf = observed[2].pdf
  /\ observed[1].epub = observed[2].epub

\* C29: when validate() was called twice on one validator with the files
\* unchanged, the second report has the overall_status of the first and its
\* issues and warnings are those the first report was returned with: nothing
\* of the first call is carried into it or found in it twice.
C29_ValidateIdempotent ==
  SameFilesTwice =>
     /\ reports[2].overall_status = reports[1].overall_status
     /\ ReportIssues(2) = IssuesOfCall(1)
     /\ ReportWarnings(2) = WarningsOfCall(1)

\* the second report on unchanged files holds the first call's issue and its
\* warning in front of its own
C29_Witness ==
  /\ SameFilesTwice
  /\ IssuesOfCall(1) # <<>>
  /\ WarningsOfCall(1) # <<>>
  /\ ReportIssues(2) = IssuesOfCall(1) \o IssuesOfCall(1)
  /\ ReportWarnings(2) = WarningsOfCall(1) \o WarningsOfCall(1)


\* C30: when an instance's first generate() returned and its second
\* generate() was given a non-empty page sequence, the second call returned
\* too and wrote an archive that starts with the marker and lacks none of
\* the run's files.
C30_SecondGenerate ==
  \A g \in Generators :
     (/\ Len(gens[g].results) >= 2
      /\ ~gens[g].results[1].raised
      /\ gens[g].results[2].input.pages # <<>>) =>
        LET r == gens[g].results[2]
        IN  /\ ~r.raised
            /\ r.archive.kind = "zip"
            /\ r.archive.entries # <<>>
            /\ r.archive.entries[1].name = MimetypeName
            /\ MissingNames(r.archive, r.input) = {}

\* the only instance there is has generated once, and its second generate()
\* on a page raised
C30_Witness ==
  \E g \in Generators :
     /\ gens[Other(g)].pc = "none"
     /\ Len(gens[g].results) = 2
     /\ ~gens[g].results[1].raised
     /\ gens[g].results[1].clean
     /\ gens[g].results[2].input.pages # <<>>
     /\ gens[g].results[2].raised
     /\ ~scratch.v2.exists

====
